---- MODULE Spec2Model ----
(***************************************************************************)
(* Procedural rig classification and pose synthesis of the hero viewer     *)
(* (src/components/Viewer3D.tsx).                                          *)
(*                                                                         *)
(* Units.  Wall-clock deltas are counted in ticks of 1/TicksPerSecond s.   *)
(* Playback speed is counted in quarters (speed 1.0 = 4).  poseState.time  *)
(* is therefore counted in tick-quarters (delta * speed).  poseState.blend *)
(* is counted in 1/BlendOne, so that "blend + delta * 3" is exact.         *)
(***************************************************************************)
EXTENDS Integers, Sequences, FiniteSets, TLC

VARIABLES
    poseState,   \* poseStateRef.current : [from, to, blend, time]
    poseProp,    \* the pose prop of Viewer3D
    autoplayRef, \* autoplayRef.current
    poseApplied, \* poseAppliedRef.current
    last,        \* history: the last operation on poseState and what it saw
    cumDelta,    \* history: sum of deltas since setPoseTarget reset blend
    twinState,   \* second run of the pose state machine
    twinSpeeds,  \* <<speed of the first run, speed of the second run>>
    modelRef,    \* modelRef.current: <<>> (null) or <<model>>
    rigRef,      \* rigRef.current: <<>> (null) or <<rig>>
    boneXf,      \* the current local transform of every bone of the model
    bindXf,      \* history: the bones' transforms as the loader delivered them
    lastSignals, \* history: the signal vector of the last applyPoseToRig
    rigOp,       \* history: [op, prev], the last two writers of the bones
    blendIn,     \* the arguments [a, b, t] of the last blendSignals call
    blendOut,    \* the result of the last blendSignals call
    autoplayProp, \* the autoplay prop of Viewer3D
    speedRef,    \* speedRef.current (= the speed prop)
    sinceRender, \* time - lastRenderTime at the last callback, saturated
    wallTime,    \* history: sum of delta * speed over all callbacks
    idleFps,     \* renderTier.idleFps
    assets,      \* which models the asset routes deliver
    heroKey,     \* the heroKey prop of Viewer3D
    userData,    \* userData of the model in modelRef: [weaponAligned, weaponAttachment]
    meshXf,      \* the current local position of every mesh of the model
    mounted,     \* the scene effect is set up: its `cancelled` is false
    loading,     \* the FBX load started by the current scene effect is in flight
    staleLoads,  \* FBX loads in flight whose scene effect was cleaned up
    loadOutcome, \* what the last completed FBX load did: "none" before the first
    urlIn,       \* the UrlState handed to serializeUrlState
    urlOut,      \* <<>>, or the UrlState parseUrlState read back
    urlState,    \* the urlState of the hero page (React state)
    lastSerializedRef, \* lastSerializedRef.current: <<>> (null) or <<params>>
    searchParams, \* the query string useSearchParams returns
    pendingReplace, \* the router.replace calls not yet delivered, oldest first
    lastChosen,  \* history: the UrlState the user chose last
    assetRequest, \* a request to an asset route: <<>> or <<[root, segments]>>
    resolvedPath, \* <<>>, or <<r>> once resolveAssetPath has returned r: <<>> (null) or <<path>>
    isLoading,   \* the isLoading state of Viewer3D: the loading overlay is shown
    error,       \* the error state of Viewer3D: <<>> (null) or <<message>>
    environmentMode, \* the environmentMode prop: the mode of the latest applyEnvironmentMode call
    scene,       \* [environment, background] of the scene: <<>> (null) or <<texture>>
    skyEnvMapRef, \* skyEnvMapRef.current: <<>> (null) or <<texture>>
    pmremGeneratorRef, \* pmremGeneratorRef.current is not null
    skyLoading,  \* a sky load is in flight whose requestId is environmentRequestRef.current
    staleSkyLoads, \* the sky loads in flight whose requestId is older
    skyOutcome   \* history: what the last completed sky load did

poseVars == <<poseState, poseProp, autoplayRef, poseApplied, last, cumDelta>>
twinVars == <<twinState, twinSpeeds>>
rigVars == <<modelRef, rigRef, boneXf, bindXf, lastSignals, rigOp>>
blendVars == <<blendIn, blendOut>>
loopVars == <<autoplayProp, speedRef, sinceRender, wallTime>>
cfgVars == <<idleFps, assets, heroKey>>
weaponVars == <<userData, meshXf>>
loadVars == <<mounted, loading, staleLoads, loadOutcome>>
urlVars == <<urlIn, urlOut>>
pageVars == <<urlState, lastSerializedRef, searchParams, pendingReplace, lastChosen>>
routeVars == <<assetRequest, resolvedPath>>
statusVars == <<isLoading, error>>
envVars == <<environmentMode, scene, skyEnvMapRef, pmremGeneratorRef, skyLoading,
             staleSkyLoads, skyOutcome>>
vars == <<poseState, poseProp, autoplayRef, poseApplied, last, cumDelta,
          twinState, twinSpeeds,
          modelRef, rigRef, boneXf, bindXf, lastSignals, rigOp,
          blendIn, blendOut, autoplayProp, speedRef, sinceRender, wallTime,
          idleFps, assets, heroKey, userData, meshXf, mounted, loading,
          staleLoads, loadOutcome, urlIn, urlOut,
          urlState, lastSerializedRef, searchParams, pendingReplace, lastChosen,
          assetRequest, resolvedPath, isLoading, error,
          environmentMode, scene, skyEnvMapRef, pmremGeneratorRef, skyLoading,
          staleSkyLoads, skyOutcome>>

----------------------------------------------------------------------------
(* Bounds *)
MaxDelta == 42        \* largest single frame delta, in ticks
MaxTime == 96         \* cap of poseState.time, in tick-quarters
MaxBones == 2         \* largest generated skeleton
ChainLen == 6         \* bones of the skeletons that outgrow the caps
MaxStale == 1         \* most loads in flight whose effect was cleaned up

(* Program constants *)
ActiveFps == 60                  \* targetFps while something animates
DefaultIdleFps == 24             \* DEFAULT_RENDER_TIER.idleFps
LowEndIdleFps == 20              \* idleFps of the low-end tier
TicksPerSecond == 2 * ActiveFps  \* one tick is half an active frame interval
BlendRate == 3
BlendOne == TicksPerSecond       \* blend == 1
ThirdSecond == TicksPerSecond \div BlendRate
SpeedUnit == 4                   \* speed 1.0
MinSpeed == 1                    \* speed 0.25
MaxSpeed == 8                    \* speed 2.0

PoseNames == {"static", "idle", "seizure"}
Speeds == {MinSpeed, SpeedUnit, MaxSpeed}
Deltas == {0, 1, 2, 5, 20, ThirdSecond, MaxDelta}

Min(a, b) == IF a < b THEN a ELSE b
Max(a, b) == IF a > b THEN a ELSE b

----------------------------------------------------------------------------
(* Pose transition state machine *)

InitialPoseState(pose) == [from |-> pose, to |-> pose, blend |-> BlendOne, time |-> 0]

\* variant: restarts the transition even when the target is unchanged
setPoseTargetAlways(state, nextPose) ==
    [state EXCEPT !.from = state.to, !.to = nextPose, !.blend = 0]

setPoseTarget(state, nextPose) ==
    IF state.to = nextPose
    THEN state
    ELSE [state EXCEPT !.from = state.to, !.to = nextPose, !.blend = 0]

\* variant: blend is not clamped
updatePoseStateNoClamp(state, delta, speed, autoplay) ==
    LET s1 == IF autoplay THEN [state EXCEPT !.time = state.time + delta * speed]
                          ELSE state
    IN IF s1.blend < BlendOne
       THEN [s1 EXCEPT !.blend = s1.blend + delta * BlendRate]
       ELSE [s1 EXCEPT !.from = s1.to]

\* variant: blend advances with the speed-scaled delta
updatePoseStateScaled(state, delta, speed, autoplay) ==
    LET s1 == IF autoplay THEN [state EXCEPT !.time = state.time + delta * speed]
                          ELSE state
    IN IF s1.blend < BlendOne
       THEN [s1 EXCEPT !.blend =
                Min(BlendOne, s1.blend + (delta * speed * BlendRate) \div SpeedUnit)]
       ELSE [s1 EXCEPT !.from = s1.to]

\* variant: time advances whether autoplay is on or off
updatePoseStateAlwaysTimed(state, delta, speed, autoplay) ==
    LET s1 == [state EXCEPT !.time = state.time + delta * speed]
    IN IF s1.blend < BlendOne
       THEN [s1 EXCEPT !.blend = Min(BlendOne, s1.blend + delta * BlendRate)]
       ELSE [s1 EXCEPT !.from = s1.to]

updatePoseState(state, delta, speed, autoplay) ==
    LET s1 == IF autoplay THEN [state EXCEPT !.time = state.time + delta * speed]
                          ELSE state
    IN IF s1.blend < BlendOne
       THEN [s1 EXCEPT !.blend = Min(BlendOne, s1.blend + delta * BlendRate)]
       ELSE [s1 EXCEPT !.from = s1.to]

\* variant: the reset keeps the transition progress
resetPoseStateKeepBlend(state, nextPose) ==
    [state EXCEPT !.time = 0, !.from = nextPose, !.to = nextPose]

resetPoseState(state, nextPose) ==
    [state EXCEPT !.time = 0, !.from = nextPose, !.to = nextPose, !.blend = BlendOne]

Settled(state) == state.from = state.to /\ state.blend = BlendOne

Undefined == "undefined"

NoHistory == [op |-> "init", mid |-> FALSE, settled |-> TRUE, same |-> FALSE,
              over |-> FALSE, timed |-> FALSE, arg |-> "idle"]

History(op, state, nextPose, delta) ==
    [op |-> op,
     mid |-> state.blend > 0 /\ state.blend < BlendOne,
     settled |-> Settled(state),
     same |-> state.to = nextPose,
     over |-> state.blend < BlendOne /\ state.blend + delta * BlendRate > BlendOne,
     timed |-> state.time > 0,
     arg |-> nextPose]

----------------------------------------------------------------------------
(* Bone names.  A name is a sequence of one-character strings. *)

UpperChars == <<"A", "B", "C", "D", "E", "F", "G", "H", "I", "J", "K", "L", "M", "N", "O", "P", "Q", "R", "S", "T", "U", "V", "W", "X", "Y", "Z">>
LowerChars == <<"a", "b", "c", "d", "e", "f", "g", "h", "i", "j", "k", "l", "m", "n", "o", "p", "q", "r", "s", "t", "u", "v", "w", "x", "y", "z">>
DigitChars == <<"0", "1", "2", "3", "4", "5", "6", "7", "8", "9">>

RECURSIVE IndexIn(_, _, _)
IndexIn(c, chars, i) ==
    IF i > Len(chars) THEN 0
    ELSE IF chars[i] = c THEN i ELSE IndexIn(c, chars, i + 1)

IsLower(c) == IndexIn(c, LowerChars, 1) > 0
IsDigit(c) == IndexIn(c, DigitChars, 1) > 0

LowerChar(c) ==
    LET i == IndexIn(c, UpperChars, 1) IN IF i > 0 THEN LowerChars[i] ELSE c

toLowerCase(name) == [i \in 1..Len(name) |-> LowerChar(name[i])]

\* name.includes(keyword)
includes(name, keyword) ==
    \E i \in 1..(Len(name) - Len(keyword) + 1) :
        SubSeq(name, i, i + Len(keyword) - 1) = keyword

ARM_KEYWORDS == <<<<"a", "r", "m">>, <<"f", "o", "r", "e", "a", "r", "m">>, <<"u", "p", "p", "e", "r", "a", "r", "m">>, <<"l", "o", "w", "e", "r", "a", "r", "m">>, <<"c", "l", "a", "v">>, <<"s", "h", "o", "u", "l", "d", "e", "r">>, <<"h", "a", "n", "d">>, <<"w", "r", "i", "s", "t">>, <<"e", "l", "b", "o", "w">>>>
LEG_KEYWORDS == <<<<"l", "e", "g">>, <<"t", "h", "i", "g", "h">>, <<"c", "a", "l", "f">>, <<"s", "h", "i", "n">>, <<"k", "n", "e", "e">>, <<"f", "o", "o", "t">>, <<"a", "n", "k", "l", "e">>, <<"t", "o", "e">>>>
SPINE_KEYWORDS == <<<<"s", "p", "i", "n", "e">>, <<"c", "h", "e", "s", "t">>, <<"t", "o", "r", "s", "o">>, <<"b", "a", "c", "k">>, <<"r", "i", "b">>, <<"w", "a", "i", "s", "t">>>>
HEAD_KEYWORDS == <<<<"h", "e", "a", "d">>, <<"n", "e", "c", "k">>, <<"s", "k", "u", "l", "l">>, <<"j", "a", "w">>>>
JAW_KEYWORDS == <<<<"j", "a", "w">>, <<"m", "o", "u", "t", "h">>, <<"l", "i", "p">>, <<"t", "o", "n", "g", "u", "e">>>>
HIPS_KEYWORDS == <<<<"h", "i", "p", "s">>, <<"p", "e", "l", "v", "i", "s">>, <<"h", "i", "p">>, <<"r", "o", "o", "t">>, <<"b", "a", "s", "e">>, <<"b", "i", "p">>>>

hasKeyword(name, keywords) ==
    \E k \in 1..Len(keywords) : includes(name, keywords[k])

LEFT_TOKENS == <<<<"l", "e", "f", "t">>, <<"l">>, <<"l", "f">>, <<"l", "f", "t">>>>
RIGHT_TOKENS == <<<<"r", "i", "g", "h", "t">>, <<"r">>, <<"r", "t">>, <<"r", "g", "t">>>>

\* variant: the token must follow a separator, /[^a-z0-9](token|...)([^a-z0-9]|$)/
TokenRegexTestNoStart(name, tokens) ==
    \E k \in 1..Len(tokens) :
        \E i \in 2..(Len(name) - Len(tokens[k]) + 1) :
            LET j == i + Len(tokens[k]) IN
            /\ SubSeq(name, i, j - 1) = tokens[k]
            /\ ~(IsLower(name[i - 1]) \/ IsDigit(name[i - 1]))
            /\ (j > Len(name) \/ ~(IsLower(name[j]) \/ IsDigit(name[j])))

\* /(^|[^a-z0-9])(token|...)([^a-z0-9]|$)/.test(name)
TokenRegexTest(name, tokens) ==
    \E k \in 1..Len(tokens) :
        \E i \in 1..(Len(name) - Len(tokens[k]) + 1) :
            LET j == i + Len(tokens[k]) IN
            /\ SubSeq(name, i, j - 1) = tokens[k]
            /\ (i = 1 \/ ~(IsLower(name[i - 1]) \/ IsDigit(name[i - 1])))
            /\ (j > Len(name) \/ ~(IsLower(name[j]) \/ IsDigit(name[j])))

LEFT_REGEX(name) == TokenRegexTest(name, LEFT_TOKENS)
RIGHT_REGEX(name) == TokenRegexTest(name, RIGHT_TOKENS)

\* /^[lL][A-Z]/, /^[rR][A-Z]/, /^[lL][0-9]/, /^[rR][0-9]/ on the raw name
PrefixTest(rawName, first, second) ==
    /\ Len(rawName) >= 2
    /\ LowerChar(rawName[1]) = first
    /\ IndexIn(rawName[2], second, 1) > 0

\* detectSide with the branch that decided: [side, path]
detectSidePath(rawName, isLimb) ==
    LET name == toLowerCase(rawName) IN
    IF LEFT_REGEX(name) THEN [side |-> "left", path |-> "regex"]
    ELSE IF RIGHT_REGEX(name) THEN [side |-> "right", path |-> "regex"]
    ELSE IF isLimb /\ PrefixTest(rawName, "l", UpperChars) THEN [side |-> "left", path |-> "prefix"]
    ELSE IF isLimb /\ PrefixTest(rawName, "r", UpperChars) THEN [side |-> "right", path |-> "prefix"]
    ELSE IF isLimb /\ PrefixTest(rawName, "l", DigitChars) THEN [side |-> "left", path |-> "prefix"]
    ELSE IF isLimb /\ PrefixTest(rawName, "r", DigitChars) THEN [side |-> "right", path |-> "prefix"]
    ELSE [side |-> "null", path |-> "none"]

detectSide(rawName, isLimb) == detectSidePath(rawName, isLimb).side

----------------------------------------------------------------------------
(* Bone classifier.  A model is a record [names, parent, world] of equally *)
(* long sequences in traversal order: bone i has name names[i], parent     *)
(* bone parent[i] (0: the parent is not a bone) and world position         *)
(* world[i] = <<x, y>> in tenths of a unit.  Bones are identified by their *)
(* index; 0 stands for null.                                               *)

BoneIds(model) == [i \in 1..Len(model.names) |-> i]

RECURSIVE getBoneDepth(_, _)
getBoneDepth(model, bone) ==
    IF model.parent[bone] = 0 THEN 0
    ELSE 1 + getBoneDepth(model, model.parent[bone])

\* Array.prototype.sort with comparator key[a] - key[b] (stable)
InsertByKey(sorted, x, key) ==
    LET n == Cardinality({j \in 1..Len(sorted) : key[sorted[j]] <= key[x]})
    IN SubSeq(sorted, 1, n) \o <<x>> \o SubSeq(sorted, n + 1, Len(sorted))

RECURSIVE SortFrom(_, _, _, _)
SortFrom(seq, key, i, acc) ==
    IF i > Len(seq) THEN acc
    ELSE SortFrom(seq, key, i + 1, InsertByKey(acc, seq[i], key))

SortByKey(seq, key) == SortFrom(seq, key, 1, <<>>)

\* Array.from(new Set(group))
RECURSIVE DedupeFrom(_, _, _)
DedupeFrom(group, i, acc) ==
    IF i > Len(group) THEN acc
    ELSE DedupeFrom(group, i + 1,
                    IF \E j \in 1..Len(acc) : acc[j] = group[i]
                    THEN acc ELSE Append(acc, group[i]))

dedupe(group) == DedupeFrom(group, 1, <<>>)

\* group.slice(0, n)
Slice0(group, n) == SubSeq(group, 1, Min(n, Len(group)))

First(seq) == IF Len(seq) = 0 THEN 0 ELSE seq[1]

SPINE_X_BAND == 2     \* Math.abs(pos.x) < 0.2
SPINE_CAP == 5
LIMB_CAP == 4
JAW_CAP == 3

lowerName(model, bone) == toLowerCase(model.names[bone])
isArm(model, bone) == hasKeyword(lowerName(model, bone), ARM_KEYWORDS)
isLeg(model, bone) == hasKeyword(lowerName(model, bone), LEG_KEYWORDS)
isSpine(model, bone) == hasKeyword(lowerName(model, bone), SPINE_KEYWORDS)
isHead(model, bone) == hasKeyword(lowerName(model, bone), HEAD_KEYWORDS)
isJaw(model, bone) == hasKeyword(lowerName(model, bone), JAW_KEYWORDS)
isHips(model, bone) == hasKeyword(lowerName(model, bone), HIPS_KEYWORDS)
sideOf(model, bone) ==
    detectSide(model.names[bone], isArm(model, bone) \/ isLeg(model, bone))

\* the name-based pass (bones.forEach)
NameGroups(model) ==
    LET bones == BoneIds(model) IN
    [hips |-> First(SelectSeq(bones, LAMBDA b : isHips(model, b))),
     spine |-> SelectSeq(bones, LAMBDA b : isSpine(model, b)),
     head |-> First(SelectSeq(bones, LAMBDA b : isHead(model, b))),
     jaw |-> SelectSeq(bones, LAMBDA b : isJaw(model, b)),
     armL |-> SelectSeq(bones, LAMBDA b : isArm(model, b) /\ sideOf(model, b) = "left"),
     armR |-> SelectSeq(bones, LAMBDA b : isArm(model, b) /\ sideOf(model, b) = "right"),
     legL |-> SelectSeq(bones, LAMBDA b : isLeg(model, b) /\ sideOf(model, b) = "left"),
     legR |-> SelectSeq(bones, LAMBDA b : isLeg(model, b) /\ sideOf(model, b) = "right")]

DepthOf(model) == [i \in 1..Len(model.names) |-> getBoneDepth(model, i)]

bonesByDepth(model) == SortByKey(BoneIds(model), DepthOf(model))

WorldX(model) == [i \in 1..Len(model.names) |-> model.world[i][1]]
WorldY(model) == [i \in 1..Len(model.names) |-> model.world[i][2]]
NegWorldY(model) == [i \in 1..Len(model.names) |-> 0 - model.world[i][2]]

\* variant: no fallback, hips stays null without a hips keyword
hipsFallbackNone(model, hips) == hips

\* if (!groups.hips) groups.hips = root
hipsFallback(model, hips) ==
    IF hips = 0 THEN First(bonesByDepth(model)) ELSE hips

\* variant: no fallback, head stays null without a head keyword
headFallbackNone(model, head) == head

\* if (!groups.head) groups.head = highest bone
headFallback(model, head) ==
    IF head = 0 THEN First(SortByKey(BoneIds(model), NegWorldY(model))) ELSE head

\* the spine fallback for a spine left empty by the names
spineFallback(model, spine, rootY, headY) ==
    IF Len(spine) # 0 THEN spine
    ELSE LET sorted == bonesByDepth(model)
             spineCandidates ==
                 SelectSeq(BoneIds(model), LAMBDA b :
                     /\ WorldX(model)[b] < SPINE_X_BAND
                     /\ 0 - WorldX(model)[b] < SPINE_X_BAND
                     /\ WorldY(model)[b] > rootY
                     /\ WorldY(model)[b] < headY)
         IN IF Len(spineCandidates) > 0 THEN spineCandidates
            ELSE SubSeq(sorted, 2, Min(5, Len(sorted)))

\* the limb fallback; midY2 is twice midY = (rootY + headY) * 0.5
limbFallback(model, group, left, upper, midY2) ==
    IF Len(group) # 0 THEN group
    ELSE LET sideBones ==
                 SelectSeq(BoneIds(model), LAMBDA b :
                     IF left THEN WorldX(model)[b] <= 0 ELSE WorldX(model)[b] >= 0)
             half ==
                 SelectSeq(sideBones, LAMBDA b :
                     IF upper THEN 2 * WorldY(model)[b] >= midY2
                              ELSE 2 * WorldY(model)[b] < midY2)
         IN Slice0(SortByKey(half, IF upper THEN NegWorldY(model) ELSE WorldY(model)),
                   LIMB_CAP)

\* variant: the cap is applied before the sort
finishGroupCapFirst(model, group, cap) ==
    SortByKey(Slice0(dedupe(group), cap), DepthOf(model))

\* sortByDepth(dedupe(group)).slice(0, cap)
finishGroup(model, group, cap) ==
    Slice0(SortByKey(dedupe(group), DepthOf(model)), cap)

\* the groups after the name-based pass and the fallback pass, before they
\* are deduplicated, sorted and capped
groupCandidates(model) ==
    LET named == NameGroups(model)
        root == First(bonesByDepth(model))
        rootY == IF root # 0 THEN WorldY(model)[root] ELSE 0
        hips == hipsFallback(model, named.hips)
        head == headFallback(model, named.head)
        headY == IF head # 0 THEN WorldY(model)[head] ELSE rootY + 10
        midY2 == rootY + headY
    IN [root |-> root,
        hips |-> hips,
        spine |-> spineFallback(model, named.spine, rootY, headY),
        head |-> head,
        jaw |-> named.jaw,
        armL |-> limbFallback(model, named.armL, TRUE, TRUE, midY2),
        armR |-> limbFallback(model, named.armR, FALSE, TRUE, midY2),
        legL |-> limbFallback(model, named.legL, TRUE, FALSE, midY2),
        legR |-> limbFallback(model, named.legR, FALSE, FALSE, midY2)]

\* buildRig(model): <<>> for null, <<rig>> otherwise.  xf are the bones'
\* local transforms at the time of the call.
buildRig(model, xf) ==
    IF Len(model.names) = 0 THEN <<>>
    ELSE CHOOSE rig \in
             {<<[bones |-> BoneIds(model),
                 rest |-> xf,
                 depth |-> DepthOf(model),
                 groups |->
                   [root |-> groups.root,
                    hips |-> groups.hips,
                    spine |-> finishGroup(model, groups.spine, SPINE_CAP),
                    head |-> groups.head,
                    jaw |-> finishGroup(model, groups.jaw, JAW_CAP),
                    armL |-> finishGroup(model, groups.armL, LIMB_CAP),
                    armR |-> finishGroup(model, groups.armR, LIMB_CAP),
                    legL |-> finishGroup(model, groups.legL, LIMB_CAP),
                    legR |-> finishGroup(model, groups.legR, LIMB_CAP)]]>> :
                groups \in {groupCandidates(model)}} : TRUE

----------------------------------------------------------------------------
(* Pose applicator.  A bone transform is [position, quaternion, scale];    *)
(* positions are in the unit of the signals, a quaternion is a bind rotation*)
(* `base` followed by the Euler rotations multiplied onto it (`rot`, each   *)
(* <<x, y, z>> in 1/EulerOne signal units; the zero rotation is the         *)
(* identity and is not recorded).                                           *)

SignalFields == {"bob", "sway", "lean", "twist", "stride", "armSwing", "spineBend", "spineTwist", "headNod", "headTilt", "slump", "shake", "armDrop", "legBend", "forward"}

EulerOne == 1200
U(v) == v * EulerOne
Frac(v, num, den) == (v * num) \div den

\* quaternion.multiply(quat.setFromEuler(euler))
MulEuler(q, euler) ==
    IF euler = <<0, 0, 0>> THEN q ELSE [q EXCEPT !.rot = Append(q.rot, euler)]

\* index (from 0) of the last occurrence of bone in group, -1 if none
LastIndex(group, bone) ==
    LET at == {i \in 1..Len(group) : group[i] = bone}
    IN IF at = {} THEN 0 - 1 ELSE (CHOOSE i \in at : \A j \in at : j <= i) - 1

\* variant: the bones are not copied back from the bind pose
resetBonesSkip(rig, xf) == xf

\* variant: the reset copies position and quaternion only
resetBonesNoScale(rig, xf) ==
    [b \in 1..Len(xf) |->
        IF \E k \in 1..Len(rig.bones) : rig.bones[k] = b
        THEN [position |-> rig.rest[b].position,
              quaternion |-> rig.rest[b].quaternion,
              scale |-> xf[b].scale]
        ELSE xf[b]]

\* rig.bones.forEach: copy rest position, quaternion and scale
resetBones(rig, xf) ==
    [b \in 1..Len(xf) |->
        IF \E k \in 1..Len(rig.bones) : rig.bones[k] = b
        THEN [position |-> rig.rest[b].position,
              quaternion |-> rig.rest[b].quaternion,
              scale |-> rig.rest[b].scale]
        ELSE xf[b]]

applyHips(rig, xf, signals) ==
    LET root == IF rig.groups.hips # 0 THEN rig.groups.hips ELSE rig.groups.root
    IN IF root = 0 THEN xf
       ELSE LET rest == rig.rest[root]
                lean == 0 - U(signals.lean) - Frac(U(signals.slump), 6, 10)
                yaw == U(signals.twist) + Frac(U(signals.shake), 4, 10)
                roll == Frac(U(signals.sway), 14, 10)
            IN [xf EXCEPT ![root] =
                   [@ EXCEPT !.position =
                                 <<rest.position[1] + signals.sway,
                                   rest.position[2] + signals.bob - signals.slump,
                                   rest.position[3] + signals.forward>>,
                             !.quaternion = MulEuler(rest.quaternion, <<lean, yaw, roll>>)]]

applySpine(rig, xf, signals) ==
    LET spine == rig.groups.spine
        den == 2 * Max(1, Len(spine))
        Euler(index) ==
            LET num == den - index
                bend == 0 - Frac(U(signals.spineBend), num, den)
                          - Frac(Frac(U(signals.slump), 5, 10), num, den)
                twist == Frac(U(signals.spineTwist), num, den)
                          + Frac(Frac(U(signals.shake), 6, 10), num, den)
            IN <<bend, twist, 0>>
    IN [b \in 1..Len(xf) |->
           IF LastIndex(spine, b) < 0 THEN xf[b]
           ELSE [xf[b] EXCEPT !.quaternion =
                    MulEuler(rig.rest[b].quaternion, Euler(LastIndex(spine, b)))]]

\* variant: the nod of the head is written to the last spine bone as well
applyHeadNodsSpine(rig, xf, signals) ==
    LET head == rig.groups.head
        spine == rig.groups.spine
    IN IF head = 0 THEN xf
       ELSE LET laughBoost == Frac(U(signals.shake), 8, 10)
                nod == 0 - U(signals.headNod) - Frac(U(signals.slump), 4, 10) + laughBoost
                tilt == U(signals.headTilt) + Frac(U(signals.shake), 7, 10)
                yaw == Frac(U(signals.shake), 3, 10) + Frac(laughBoost, 4, 10)
                nodded == [xf EXCEPT ![head].quaternion =
                              MulEuler(rig.rest[head].quaternion, <<nod, yaw, tilt>>)]
            IN IF Len(spine) = 0 THEN nodded
               ELSE [nodded EXCEPT ![spine[Len(spine)]].quaternion =
                        MulEuler(rig.rest[spine[Len(spine)]].quaternion, <<nod, yaw, tilt>>)]

applyHead(rig, xf, signals) ==
    LET head == rig.groups.head
    IN IF head = 0 THEN xf
       ELSE LET laughBoost == Frac(U(signals.shake), 8, 10)
                nod == 0 - U(signals.headNod) - Frac(U(signals.slump), 4, 10) + laughBoost
                tilt == U(signals.headTilt) + Frac(U(signals.shake), 7, 10)
                yaw == Frac(U(signals.shake), 3, 10) + Frac(laughBoost, 4, 10)
            IN [xf EXCEPT ![head].quaternion =
                   MulEuler(rig.rest[head].quaternion, <<nod, yaw, tilt>>)]

applyJaw(rig, xf, signals) ==
    LET jaw == rig.groups.jaw
        den == 2 * Len(jaw)
        jawOpen == Frac(Max(0, U(signals.shake) + Frac(U(signals.headNod), 6, 10)), 6, 10)
    IN IF Len(jaw) = 0 THEN xf
       ELSE [b \in 1..Len(xf) |->
               IF LastIndex(jaw, b) < 0 THEN xf[b]
               ELSE [xf[b] EXCEPT !.quaternion =
                        MulEuler(rig.rest[b].quaternion,
                                 <<Frac(jawOpen, den - LastIndex(jaw, b), den), 0, 0>>)]]

applyLimb(rig, xf, signals, bones, swing, side, drop) ==
    LET count == Max(1, Len(bones))
        den == 5 * count
        sideSign == IF side = "left" THEN 1 ELSE 0 - 1
        Euler(index) ==
            LET num == den - 3 * index
                swingX == Frac(U(swing), num, den) + Frac(U(drop), num, den)
                roll == sideSign * Frac(Frac(U(drop), 4, 10), num, den)
                jitter == Frac(Frac(U(signals.shake), 5, 10), num, den)
            IN <<swingX, 0, roll + jitter>>
    IN [b \in 1..Len(xf) |->
           IF LastIndex(bones, b) < 0 THEN xf[b]
           ELSE [xf[b] EXCEPT !.quaternion =
                    MulEuler(rig.rest[b].quaternion, Euler(LastIndex(bones, b)))]]

\* the groups in the order applyPoseToRig processes them
GROUP_ORDER == <<"hips", "spine", "head", "jaw", "legL", "legR", "armL", "armR">>

\* the block of applyPoseToRig that poses one group
applyGroup(rig, xf, signals, group) ==
    CASE group = "hips" -> applyHips(rig, xf, signals)
      [] group = "spine" -> applySpine(rig, xf, signals)
      [] group = "head" -> applyHead(rig, xf, signals)
      [] group = "jaw" -> applyJaw(rig, xf, signals)
      [] group = "legL" -> applyLimb(rig, xf, signals, rig.groups.legL,
                                     signals.stride + signals.legBend, "left", 0)
      [] group = "legR" -> applyLimb(rig, xf, signals, rig.groups.legR,
                                     0 - signals.stride + signals.legBend, "right", 0)
      [] group = "armL" -> applyLimb(rig, xf, signals, rig.groups.armL,
                                     0 - signals.armSwing, "left", signals.armDrop)
      [] group = "armR" -> applyLimb(rig, xf, signals, rig.groups.armR,
                                     signals.armSwing, "right", signals.armDrop)

\* the blocks of applyPoseToRig run in the given order of the groups
RECURSIVE applyGroups(_, _, _, _)
applyGroups(rig, xf, signals, order) ==
    IF order = <<>> THEN xf
    ELSE applyGroups(rig, applyGroup(rig, xf, signals, Head(order)), signals, Tail(order))

\* applyPoseToRig with its blocks reordered: the reset of all bones first,
\* then the groups in the given order
applyPoseToRigInOrder(rig, xf, signals, order) ==
    applyGroups(rig, resetBones(rig, xf), signals, order)

applyPoseToRig(rig, xf, signals) ==
    LET x0 == resetBones(rig, xf)
        x1 == applyHips(rig, x0, signals)
        x2 == applySpine(rig, x1, signals)
        x3 == applyHead(rig, x2, signals)
        x4 == applyJaw(rig, x3, signals)
        legSwing == signals.stride
        armSwing == signals.armSwing
        x5 == applyLimb(rig, x4, signals, rig.groups.legL,
                        legSwing + signals.legBend, "left", 0)
        x6 == applyLimb(rig, x5, signals, rig.groups.legR,
                        0 - legSwing + signals.legBend, "right", 0)
        x7 == applyLimb(rig, x6, signals, rig.groups.armL,
                        0 - armSwing, "left", signals.armDrop)
    IN applyLimb(rig, x7, signals, rig.groups.armR,
                 armSwing, "right", signals.armDrop)

----------------------------------------------------------------------------
(* Pose signal generator and blender.  Profile coefficients are in 1/1000, *)
(* frequency in 1/20 Hz.  A sinusoid is read from a table of TableSize      *)
(* samples per turn with values in 1/WaveOne, so signals are in             *)
(* 1/(1000 * WaveOne); products are rounded down to that unit.              *)

POSE_PROFILES ==
    [idle |-> [frequency |-> 16, bob |-> 18, sway |-> 15, lean |-> 50,
              twist |-> 40, stride |-> 120, armSwing |-> 180, spineBend
              |-> 60, spineTwist |-> 50, headNod |-> 50, headTilt |-> 40,
              slump |-> 0, shake |-> 0, armDrop |-> 80, legBend |-> 40,
              forward |-> 15],
     static |-> [frequency |-> 7, bob |-> 4, sway |-> 4, lean |-> 10,
                twist |-> 10, stride |-> 20, armSwing |-> 20, spineBend
                |-> 10, spineTwist |-> 10, headNod |-> 10, headTilt |->
                10, slump |-> 0, shake |-> 0, armDrop |-> 20, legBend |->
                10, forward |-> 0],
     seizure |-> [frequency |-> 28, bob |-> 30, sway |-> 20, lean |-> 80,
                 twist |-> 60, stride |-> 80, armSwing |-> 220, spineBend
                 |-> 140, spineTwist |-> 80, headNod |-> 160, headTilt |->
                 100, slump |-> 50, shake |-> 120, armDrop |-> 180,
                 legBend |-> 60, forward |-> 20]]

WaveOne == 100
TableSize == 64
SinTable ==
    <<0, 10, 20, 29, 38, 47, 56, 63, 71, 77, 83, 88, 92, 96, 98, 100, 100,
    100, 98, 96, 92, 88, 83, 77, 71, 63, 56, 47, 38, 29, 20, 10, 0, 0 -
    10, 0 - 20, 0 - 29, 0 - 38, 0 - 47, 0 - 56, 0 - 63, 0 - 71, 0 - 77, 0
    - 83, 0 - 88, 0 - 92, 0 - 96, 0 - 98, 0 - 100, 0 - 100, 0 - 100, 0 -
    98, 0 - 96, 0 - 92, 0 - 88, 0 - 83, 0 - 77, 0 - 71, 0 - 63, 0 - 56, 0
    - 47, 0 - 38, 0 - 29, 0 - 20, 0 - 10>>

\* Math.sin of an angle given in 1/TableSize turns
Sin(angle) == SinTable[(angle % TableSize) + 1]

\* time * frequency * 2 pi * mul + offset, in 1/TableSize turns; time is in
\* 1/(TicksPerSecond * SpeedUnit) s
Angle(time, frequency, mulNum, mulDen, offset) ==
    (time * frequency * TableSize * mulNum)
        \div (TicksPerSecond * SpeedUnit * 20 * mulDen) + offset

Abs(v) == IF v < 0 THEN 0 - v ELSE v

\* variant: forward follows the whole gait wave
getPoseSignalsUnrectified(pose, time) ==
    LET profile == POSE_PROFILES[pose]
        gait == Sin(Angle(time, profile.frequency, 1, 1, 0))
        pace == Sin(Angle(time, profile.frequency, 1, 1, 16))
        sway == Sin(Angle(time, profile.frequency, 5, 10, 6))
        bob == Abs(Sin(Angle(time, profile.frequency, 1, 1, 0)))
        breath == Sin(Angle(time, profile.frequency, 35, 100, 12))
        jitter == (Sin(Angle(time, profile.frequency, 27, 10, 4))
                    * Sin(Angle(time, profile.frequency, 33, 10, 16))) \div WaveOne
        drive == IF pose = "seizure" THEN pace ELSE gait
    IN [bob |-> bob * profile.bob,
        sway |-> sway * profile.sway,
        lean |-> profile.lean * WaveOne + Frac(breath * profile.lean, 2, 10),
        twist |-> sway * profile.twist,
        stride |-> gait * profile.stride,
        armSwing |-> drive * profile.armSwing,
        spineBend |-> breath * profile.spineBend + Frac(gait * profile.spineBend, 15, 100),
        spineTwist |-> sway * profile.spineTwist,
        headNod |-> breath * profile.headNod,
        headTilt |-> sway * profile.headTilt,
        slump |-> profile.slump * WaveOne,
        shake |-> jitter * profile.shake,
        armDrop |-> profile.armDrop * WaveOne,
        legBend |-> profile.legBend * WaveOne,
        forward |-> profile.forward * Sin(Angle(time, profile.frequency, 1, 1, 0))]

getPoseSignals(pose, time) ==
    LET profile == POSE_PROFILES[pose]
        gait == Sin(Angle(time, profile.frequency, 1, 1, 0))
        pace == Sin(Angle(time, profile.frequency, 1, 1, 16))
        sway == Sin(Angle(time, profile.frequency, 5, 10, 6))
        bob == Abs(Sin(Angle(time, profile.frequency, 1, 1, 0)))
        breath == Sin(Angle(time, profile.frequency, 35, 100, 12))
        jitter == (Sin(Angle(time, profile.frequency, 27, 10, 4))
                    * Sin(Angle(time, profile.frequency, 33, 10, 16))) \div WaveOne
        drive == IF pose = "seizure" THEN pace ELSE gait
    IN [bob |-> bob * profile.bob,
        sway |-> sway * profile.sway,
        lean |-> profile.lean * WaveOne + Frac(breath * profile.lean, 2, 10),
        twist |-> sway * profile.twist,
        stride |-> gait * profile.stride,
        armSwing |-> drive * profile.armSwing,
        spineBend |-> breath * profile.spineBend + Frac(gait * profile.spineBend, 15, 100),
        spineTwist |-> sway * profile.spineTwist,
        headNod |-> breath * profile.headNod,
        headTilt |-> sway * profile.headTilt,
        slump |-> profile.slump * WaveOne,
        shake |-> jitter * profile.shake,
        armDrop |-> profile.armDrop * WaveOne,
        legBend |-> profile.legBend * WaveOne,
        forward |-> profile.forward * Max(0, Sin(Angle(time, profile.frequency, 1, 1, 0)))]

\* THREE.MathUtils.lerp(x, y, t) = (1 - t) * x + t * y, t in 1/BlendOne
lerp(x, y, t) == ((BlendOne - t) * x + t * y) \div BlendOne

\* variant: forward is taken from the first vector
blendSignalsForwardFromA(a, b, t) ==
    [bob |-> lerp(a.bob, b.bob, t),
     sway |-> lerp(a.sway, b.sway, t),
     lean |-> lerp(a.lean, b.lean, t),
     twist |-> lerp(a.twist, b.twist, t),
     stride |-> lerp(a.stride, b.stride, t),
     armSwing |-> lerp(a.armSwing, b.armSwing, t),
     spineBend |-> lerp(a.spineBend, b.spineBend, t),
     spineTwist |-> lerp(a.spineTwist, b.spineTwist, t),
     headNod |-> lerp(a.headNod, b.headNod, t),
     headTilt |-> lerp(a.headTilt, b.headTilt, t),
     slump |-> lerp(a.slump, b.slump, t),
     shake |-> lerp(a.shake, b.shake, t),
     armDrop |-> lerp(a.armDrop, b.armDrop, t),
     legBend |-> lerp(a.legBend, b.legBend, t),
     forward |-> a.forward]

blendSignals(a, b, t) ==
    [bob |-> lerp(a.bob, b.bob, t),
     sway |-> lerp(a.sway, b.sway, t),
     lean |-> lerp(a.lean, b.lean, t),
     twist |-> lerp(a.twist, b.twist, t),
     stride |-> lerp(a.stride, b.stride, t),
     armSwing |-> lerp(a.armSwing, b.armSwing, t),
     spineBend |-> lerp(a.spineBend, b.spineBend, t),
     spineTwist |-> lerp(a.spineTwist, b.spineTwist, t),
     headNod |-> lerp(a.headNod, b.headNod, t),
     headTilt |-> lerp(a.headTilt, b.headTilt, t),
     slump |-> lerp(a.slump, b.slump, t),
     shake |-> lerp(a.shake, b.shake, t),
     armDrop |-> lerp(a.armDrop, b.armDrop, t),
     legBend |-> lerp(a.legBend, b.legBend, t),
     forward |-> lerp(a.forward, b.forward, t)]

Signals(v) == [bob |-> v[1], sway |-> v[2], lean |-> v[3], twist |-> v[4], stride |-> v[5], armSwing |-> v[6], spineBend |-> v[7], spineTwist |-> v[8], headNod |-> v[9], headTilt |-> v[10], slump |-> v[11], shake |-> v[12], armDrop |-> v[13], legBend |-> v[14], forward |-> v[15]]

ZeroSignals == Signals(<<0, 0, 0, 0, 0, 0, 0, 0, 0, 0, 0, 0, 0, 0, 0>>)

\* time - lastRenderTime matters up to the longest frame interval
SinceCap == TicksPerSecond \div LowEndIdleFps

NoUserData == [weaponAligned |-> FALSE, weaponAttachment |-> <<>>]

InitBlend ==
    /\ blendIn = [a |-> ZeroSignals, b |-> ZeroSignals, t |-> 0]
    /\ blendOut = <<>>

InitLoopIdle ==
    /\ autoplayProp = autoplayRef
    /\ speedRef = SpeedUnit
    /\ sinceRender = 0
    /\ wallTime = 0
    /\ idleFps = DefaultIdleFps
    /\ assets = "generated"
    /\ heroKey = Undefined

\* the scene effect has started the load of the model
InitNoModel ==
    /\ mounted = TRUE
    /\ loading = TRUE
    /\ staleLoads = 0
    /\ loadOutcome = "none"
    /\ userData = NoUserData
    /\ meshXf = <<>>
    /\ modelRef = <<>>
    /\ rigRef = <<>>
    /\ boneXf = <<>>
    /\ bindXf = <<>>
    /\ lastSignals = ZeroSignals
    /\ rigOp = [op |-> "none", prev |-> "none"]

\* no URL state is being serialized
InitUrlIdle ==
    /\ urlIn = <<>>
    /\ urlOut = <<>>

\* no hero page is open
InitPageIdle ==
    /\ urlState = <<>>
    /\ lastSerializedRef = <<>>
    /\ searchParams = <<>>
    /\ pendingReplace = <<>>
    /\ lastChosen = <<>>

\* no request to an asset route has been made
InitRouteIdle ==
    /\ assetRequest = <<>>
    /\ resolvedPath = <<>>

\* useState(true) and useState(null): the first load is in flight
InitStatus ==
    /\ isLoading = TRUE
    /\ error = <<>>

\* the message of the error overlay
LoadErrorMessage == "Unable to load the hero model."

NoEnvironment == [environment |-> <<>>, background |-> <<>>]

\* the scene effect has applied the environment mode 'none'
InitEnvNone ==
    /\ environmentMode = "none"
    /\ scene = NoEnvironment
    /\ skyEnvMapRef = <<>>
    /\ pmremGeneratorRef = FALSE
    /\ skyLoading = FALSE
    /\ staleSkyLoads = 0
    /\ skyOutcome = "none"

----------------------------------------------------------------------------
(* The component's handlers that write poseState *)

\* useEffect(..., [pose]): runs when the pose prop changes
PoseEffect(pose) ==
    /\ poseState' = setPoseTarget(poseState, pose)
    /\ poseApplied' = FALSE

\* resetPose(targetPose?) of the imperative handle
resetPose(targetPose) ==
    LET nextPose == IF targetPose = Undefined THEN poseProp ELSE targetPose
    IN /\ poseState' = resetPoseState(poseState, nextPose)
       /\ autoplayRef' = FALSE

InitPose ==
    /\ \E pose \in PoseNames :
        /\ poseProp = pose
        /\ poseState = InitialPoseState(pose)
    /\ autoplayRef \in BOOLEAN
    /\ poseApplied = FALSE
    /\ last = NoHistory
    /\ cumDelta = ThirdSecond

InitTwinOff ==
    /\ twinState = InitialPoseState("idle")
    /\ twinSpeeds = <<SpeedUnit, SpeedUnit>>

ChangePose ==
    \E pose \in PoseNames \ {poseProp} :
        /\ poseProp' = pose
        /\ PoseEffect(pose)
        /\ last' = History("setPoseTarget", poseState, pose, 0)
        /\ cumDelta' = IF poseState.to = pose THEN cumDelta ELSE 0
        /\ UNCHANGED <<autoplayRef, twinVars, rigVars, blendVars, urlVars, pageVars, routeVars, statusVars, envVars, loopVars, cfgVars, weaponVars, loadVars>>

CallResetPose ==
    \E target \in PoseNames \cup {Undefined} :
        /\ resetPose(target)
        /\ last' = History("resetPose", poseState,
                           IF target = Undefined THEN poseProp ELSE target, 0)
        /\ cumDelta' = ThirdSecond
        /\ wallTime' = 0
        /\ UNCHANGED <<poseProp, poseApplied, twinVars, rigVars, blendVars, urlVars, pageVars, routeVars, statusVars, envVars,
                       autoplayProp, speedRef, sinceRender, cfgVars, weaponVars, loadVars>>

CallUpdatePoseState ==
    \E delta \in Deltas, speed \in Speeds, autoplay \in BOOLEAN :
        /\ autoplay => poseState.time + delta * speed <= MaxTime
        /\ poseState' = updatePoseState(poseState, delta, speed, autoplay)
        /\ last' = History("updatePoseState", poseState, poseState.to, delta)
        /\ cumDelta' = Min(ThirdSecond, cumDelta + delta)
        /\ UNCHANGED <<poseProp, autoplayRef, poseApplied, twinVars, rigVars,
                       blendVars, urlVars, pageVars, routeVars, statusVars, envVars, loopVars, cfgVars, weaponVars, loadVars>>

NextPose == ChangePose \/ CallResetPose \/ CallUpdatePoseState

InitOfPose ==
    /\ InitPose /\ InitTwinOff /\ InitBlend /\ InitLoopIdle /\ InitNoModel /\ InitUrlIdle
    /\ InitPageIdle /\ InitRouteIdle /\ InitStatus /\ InitEnvNone

SpecPose == InitOfPose /\ [][NextPose]_vars

----------------------------------------------------------------------------
(* Two runs of the state machine with the same inputs and different speeds *)

InitTwin ==
    /\ \E pose \in PoseNames :
        /\ poseProp = pose
        /\ poseState = InitialPoseState(pose)
        /\ twinState = InitialPoseState(pose)
    /\ twinSpeeds \in {sp \in Speeds \X Speeds : sp[1] # sp[2]}
    /\ autoplayRef = TRUE
    /\ poseApplied = FALSE
    /\ last = NoHistory
    /\ cumDelta = ThirdSecond

TwinSetPoseTarget ==
    \E nextPose \in PoseNames :
        /\ poseState' = setPoseTarget(poseState, nextPose)
        /\ twinState' = setPoseTarget(twinState, nextPose)
        /\ last' = History("setPoseTarget", poseState, nextPose, 0)
        /\ UNCHANGED <<poseProp, autoplayRef, poseApplied, cumDelta, twinSpeeds,
                       rigVars, blendVars, urlVars, pageVars, routeVars, statusVars, envVars, loopVars, cfgVars, weaponVars, loadVars>>

TwinUpdatePoseState ==
    \E delta \in Deltas, autoplay \in BOOLEAN :
        /\ autoplay => poseState.time + delta * twinSpeeds[1] <= MaxTime
        /\ autoplay => twinState.time + delta * twinSpeeds[2] <= MaxTime
        /\ poseState' = updatePoseState(poseState, delta, twinSpeeds[1], autoplay)
        /\ twinState' = updatePoseState(twinState, delta, twinSpeeds[2], autoplay)
        /\ last' = History("updatePoseState", poseState, poseState.to, delta)
        /\ UNCHANGED <<poseProp, autoplayRef, poseApplied, cumDelta, twinSpeeds,
                       rigVars, blendVars, urlVars, pageVars, routeVars, statusVars, envVars, loopVars, cfgVars, weaponVars, loadVars>>

NextTwin == TwinSetPoseTarget \/ TwinUpdatePoseState

InitOfTwin ==
    /\ InitTwin /\ InitBlend /\ InitLoopIdle /\ InitNoModel /\ InitUrlIdle
    /\ InitPageIdle /\ InitRouteIdle /\ InitStatus /\ InitEnvNone

SpecTwin == InitOfTwin /\ [][NextTwin]_vars

----------------------------------------------------------------------------
(* Weapon attachment tracker.  A model also lists its meshes, in traversal *)
(* order: [name, parent, center, aligned], parent being a bone or 0 (the   *)
(* model).  World matrices are not multiplied out: the world matrix of a   *)
(* bone is the sequence of the local transforms from its outermost bone    *)
(* ancestor down to the bone, and vectors computed from it are terms.      *)

HERO_WEAPON_ALIGNMENT(key) ==
    IF key = "monkey_king"
    THEN <<[weaponBones |-> <<<<"w", "e", "a", "p", "o", "n", "_", "b", "a", "s", "e">>,
                              <<"w", "e", "a", "p", "o", "n">>>>,
            handBones |-> <<<<"w", "r", "i", "s", "t", "_", "r">>,
                            <<"h", "a", "n", "d", "_", "r">>>>,
            meshHints |-> <<<<"w", "e", "a", "p", "o", "n">>,
                            <<"s", "t", "a", "f", "f">>,
                            <<"j", "i", "n", "g", "u">>,
                            <<"b", "a", "n", "g">>>>]>>
    ELSE <<>>


\* the bones from the outermost bone ancestor of bone down to bone
RECURSIVE BoneChain(_, _)
BoneChain(model, bone) ==
    IF bone = 0 THEN <<>>
    ELSE Append(BoneChain(model, model.parent[bone]), bone)

\* object.matrixWorld after updateWorldMatrix
matrixWorld(model, xf, bone) ==
    LET chain == BoneChain(model, bone)
    IN [i \in 1..Len(chain) |-> xf[chain[i]]]

\* bone.getWorldPosition(target)
getWorldPosition(model, xf, bone) ==
    [op |-> "worldPosition", matrix |-> matrixWorld(model, xf, bone)]

\* parent.worldToLocal(vector)
worldToLocal(model, xf, parent, vector) ==
    [op |-> "worldToLocal", matrix |-> matrixWorld(model, xf, parent), vector |-> vector]

VectorAdd(v, w) == [op |-> "add", a |-> v, b |-> w]
VectorSub(v, w) == [op |-> "sub", a |-> v, b |-> w]

\* findBoneByNames(model, names): the first matching bone of the traversal, 0 for null
findBoneByNames(model, names) ==
    First(SelectSeq(BoneIds(model), LAMBDA b :
        \E k \in 1..Len(names) :
            toLowerCase(names[k]) = toLowerCase(model.names[b])))

\* variant: the first mesh of the traversal, whatever its name
findMeshByHintsAny(model, hints) ==
    First([m \in 1..Len(model.meshes) |-> m])

\* findMeshByHints(model, hints): the first matching mesh of the traversal, 0 for null
findMeshByHints(model, hints) ==
    First(SelectSeq([m \in 1..Len(model.meshes) |-> m], LAMBDA m :
        \E k \in 1..Len(hints) :
            includes(toLowerCase(model.meshes[m].name), toLowerCase(hints[k]))))

\* alignHeroWeapon(model, heroKey) on a model with bone transforms xf, mesh
\* positions mxf and userData ud: the three after the call
alignHeroWeapon(model, xf, mxf, ud, key) ==
    LET same == [xf |-> xf, meshXf |-> mxf, userData |-> ud]
        config == HERO_WEAPON_ALIGNMENT(key)
    IN IF key = Undefined THEN same
       ELSE IF config = <<>> THEN same
       ELSE IF ud.weaponAligned \/ ud.weaponAttachment # <<>> THEN same
       ELSE LET handBone == findBoneByNames(model, config[1].handBones)
                handPosition == getWorldPosition(model, xf, handBone)
                weaponBone == findBoneByNames(model, config[1].weaponBones)
                weaponMesh == findMeshByHints(model, config[1].meshHints)
            IN IF handBone = 0 THEN same
               ELSE IF weaponBone # 0
               THEN LET parent == model.parent[weaponBone]
                        localHand == worldToLocal(model, xf, parent, handPosition)
                        localWeapon == worldToLocal(model, xf, parent,
                                           getWorldPosition(model, xf, weaponBone))
                    IN [xf |-> [xf EXCEPT ![weaponBone].position =
                                   VectorAdd(@, VectorSub(localHand, localWeapon))],
                        meshXf |-> mxf,
                        userData |->
                            [weaponAligned |-> TRUE,
                             weaponAttachment |->
                                 <<[heroKey |-> key, handBone |-> handBone,
                                    weaponBone |-> weaponBone, weaponMesh |-> 0,
                                    parent |-> parent, offset |-> <<<<0, 0, 0>>>>,
                                    meshCenter |-> <<>>]>>]]
               ELSE IF weaponMesh = 0 THEN same
               ELSE IF model.meshes[weaponMesh].aligned THEN same
               ELSE LET meshCenter == model.meshes[weaponMesh].center
                        parent == model.meshes[weaponMesh].parent
                        localHand == worldToLocal(model, xf, parent, handPosition)
                    IN [xf |-> xf,
                        meshXf |-> [mxf EXCEPT ![weaponMesh] = VectorSub(localHand, meshCenter)],
                        userData |->
                            [weaponAligned |-> TRUE,
                             weaponAttachment |->
                                 <<[heroKey |-> key, handBone |-> handBone,
                                    weaponBone |-> 0, weaponMesh |-> weaponMesh,
                                    parent |-> parent, offset |-> <<>>,
                                    meshCenter |-> <<meshCenter>>]>>]]

\* variant: the hand's world position is written without the conversion
\* into the space of the stored parent
updateHeroWeaponAttachmentWorld(model, xf, mxf, ud, key) ==
    LET same == [xf |-> xf, meshXf |-> mxf]
    IN IF key = Undefined THEN same
       ELSE IF ud.weaponAttachment = <<>> THEN same
       ELSE IF ud.weaponAttachment[1].heroKey # key THEN same
       ELSE LET attachment == ud.weaponAttachment[1]
                handPosition == getWorldPosition(model, xf, attachment.handBone)
            IN IF attachment.weaponBone # 0
               THEN [xf |-> [xf EXCEPT ![attachment.weaponBone].position =
                                 VectorAdd(handPosition, attachment.offset[1])],
                     meshXf |-> mxf]
               ELSE IF attachment.weaponMesh # 0 /\ attachment.meshCenter # <<>>
               THEN [xf |-> xf,
                     meshXf |-> [mxf EXCEPT ![attachment.weaponMesh] =
                                    VectorSub(handPosition, attachment.meshCenter[1])]]
               ELSE same

\* updateHeroWeaponAttachment(model, heroKey): bone transforms and mesh
\* positions after the call
updateHeroWeaponAttachment(model, xf, mxf, ud, key) ==
    LET same == [xf |-> xf, meshXf |-> mxf]
    IN IF key = Undefined THEN same
       ELSE IF ud.weaponAttachment = <<>> THEN same
       ELSE IF ud.weaponAttachment[1].heroKey # key THEN same
       ELSE LET attachment == ud.weaponAttachment[1]
                handPosition == getWorldPosition(model, xf, attachment.handBone)
                localHand == worldToLocal(model, xf, attachment.parent, handPosition)
            IN IF attachment.weaponBone # 0
               THEN [xf |-> [xf EXCEPT ![attachment.weaponBone].position =
                                 VectorAdd(localHand, attachment.offset[1])],
                     meshXf |-> mxf]
               ELSE IF attachment.weaponMesh # 0 /\ attachment.meshCenter # <<>>
               THEN [xf |-> xf,
                     meshXf |-> [mxf EXCEPT ![attachment.weaponMesh] =
                                    VectorSub(localHand, attachment.meshCenter[1])]]
               ELSE same

----------------------------------------------------------------------------
(* Skeletons the loader can deliver, and the classifier and applicator     *)
(* driven by model loads, pose applications and clip-mixer writes           *)

Name_Hips == <<"H", "i", "p", "s">>
Name_Head == <<"H", "e", "a", "d">>
Name_Bone == <<"B", "o", "n", "e">>
Name_Spine1 == <<"S", "p", "i", "n", "e", "1">>
Name_L_Hand == <<"L", "_", "H", "a", "n", "d">>
Name_jaw == <<"j", "a", "w">>
Name_Empty == <<>>

\* [name, world position] of the bones the generated skeletons are made of
BoneKinds ==
    {[name |-> Name_Hips, world |-> <<0, 0>>],
     [name |-> Name_Head, world |-> <<0, 16>>],
     [name |-> Name_Bone, world |-> <<0 - 3, 9>>],
     [name |-> Name_Bone, world |-> <<3, 20>>],
     [name |-> Name_Spine1, world |-> <<0, 8>>],
     [name |-> Name_L_Hand, world |-> <<0 - 5, 10>>],
     [name |-> Name_jaw, world |-> <<0, 15>>],
     [name |-> Name_Empty, world |-> <<1, 4>>]}

RECURSIVE AncestorsOrSelf(_, _)
AncestorsOrSelf(parent, bone) ==
    IF bone = 0 THEN {} ELSE {bone} \cup AncestorsOrSelf(parent, parent[bone])

\* parent vectors of a depth-first traversal of n bones
TraversalParents(n) ==
    {p \in [1..n -> 0..n] :
        \A i \in 1..n :
            p[i] = 0 \/ (i > 1 /\ p[i] < i /\ p[i] \in AncestorsOrSelf(p, i - 1))}

Skeletons ==
    UNION {{[names |-> [i \in 1..n |-> kinds[i].name],
             parent |-> [i \in 1..n |-> parent[i]],
             world |-> [i \in 1..n |-> kinds[i].world],
             meshes |-> <<>>] :
               kinds \in [1..n -> BoneKinds], parent \in TraversalParents(n)} :
           n \in 0..MaxBones}

BindVariants == {0, 1}

\* the hero models of the viewer page: a small rigged model and a model
\* without bones
HeroModels ==
    {[names |-> <<Name_Bone, Name_Hips, Name_L_Hand>>,
      parent |-> <<0, 1, 2>>,
      world |-> <<<<0, 0>>, <<0, 5>>, <<0 - 5, 10>>>>,
      meshes |-> <<>>],
     [names |-> <<>>, parent |-> <<>>, world |-> <<>>, meshes |-> <<>>]}

Name_R_Hand == <<"R", "_", "H", "a", "n", "d">>
Name_Arm == <<"A", "r", "m">>
Name_L_R_Arm == <<"L", "_", "R", "_", "A", "r", "m">>
Name_R_L_Leg == <<"R", "_", "L", "_", "L", "e", "g">>
Name_LeftUpArm == <<"L", "e", "f", "t", "U", "p", "A", "r", "m">>
Name_RightUpArm == <<"R", "i", "g", "h", "t", "U", "p", "A", "r", "m">>
Name_LeftLeg == <<"L", "e", "f", "t", "L", "e", "g">>
Name_RightLeg == <<"R", "i", "g", "h", "t", "L", "e", "g">>

\* skeletons of ChainLen bones whose groups outgrow the caps: a chain, a
\* star, and a tree whose traversal order is not its depth order
ChainNames == {Name_jaw, Name_Spine1, Name_L_Hand}

ChainParents ==
    {[i \in 1..ChainLen |-> i - 1],
     [i \in 1..ChainLen |-> IF i = 1 THEN 0 ELSE 1],
     [i \in 1..ChainLen |-> IF i = 1 THEN 0 ELSE IF i <= 3 THEN i - 1 ELSE 1]}

ChainModels ==
    {[names |-> names,
      parent |-> parent,
      world |-> [i \in 1..ChainLen |-> <<((i % 3) - 1) * 3, 2 * i>>],
      meshes |-> <<>>] :
        names \in [1..ChainLen -> ChainNames], parent \in ChainParents}

\* the humanoid skeleton with the standard English names; the limbs are
\* placed on either side, above or below the hips
LimbSpots == {<<0 - 3, 14>>, <<3, 14>>, <<0 - 2, 4>>, <<2, 4>>}

HumanoidNames ==
    <<Name_Hips, Name_Spine1, Name_Head, Name_LeftUpArm, Name_RightUpArm,
      Name_LeftLeg, Name_RightLeg>>

HumanoidModels ==
    {[names |-> HumanoidNames,
      parent |-> <<0, 1, 2, 2, 2, 1, 1>>,
      world |-> <<<<0, 10>>, <<0, 13>>, <<0, 17>>>> \o limbs,
      meshes |-> <<>>] :
        limbs \in [1..4 -> LimbSpots]}

\* skeletons with side-prefixed, two-sided and unsided limb names
SidedNames ==
    {Name_Hips, Name_L_Hand, Name_R_Hand, Name_Arm, Name_L_R_Arm, Name_R_L_Leg}

SidedModels ==
    {[names |-> names,
      parent |-> <<0, 1, 2>>,
      world |-> <<<<0, 0>>, <<0 - 4, 6>>, <<4, 12>>>>,
      meshes |-> <<>>] :
        names \in [1..3 -> SidedNames]}

\* hero models with and without a hand bone, a weapon bone and weapon meshes
Name_wrist_R == <<"w", "r", "i", "s", "t", "_", "R">>
Name_Weapon == <<"W", "e", "a", "p", "o", "n">>
Name_weapon_base == <<"w", "e", "a", "p", "o", "n", "_", "b", "a", "s", "e">>
Name_body == <<"b", "o", "d", "y">>
Name_Staff_geo == <<"S", "t", "a", "f", "f", "_", "g", "e", "o">>

ArmedNames == {Name_wrist_R, Name_Weapon, Name_weapon_base}

BodyMesh == [name |-> Name_body, parent |-> 0, center |-> <<0, 9, 0>>, aligned |-> FALSE]

StaffMesh(parent, aligned) ==
    [name |-> Name_Staff_geo, parent |-> parent, center |-> <<4, 0, 1>>, aligned |-> aligned]

ArmedMeshes ==
    {<<BodyMesh>>, <<BodyMesh, StaffMesh(2, FALSE)>>, <<StaffMesh(1, TRUE)>>}

ArmedModels ==
    {[names |-> <<Name_Hips>> \o names,
      parent |-> parent,
      world |-> <<<<0, 10>>, <<0 - 4, 12>>, <<3, 6>>>>,
      meshes |-> meshes] :
        names \in [1..2 -> ArmedNames], parent \in {<<0, 1, 2>>, <<0, 1, 1>>},
        meshes \in ArmedMeshes}

\* monkey_king models whose weapon is a bone and whose weapon is a mesh
TrackedModels ==
    {[names |-> <<Name_Hips, Name_Spine1, Name_wrist_R, Name_weapon_base>>,
      parent |-> <<0, 1, 2, 1>>,
      world |-> <<<<0, 10>>, <<0, 13>>, <<0 - 4, 12>>, <<3, 6>>>>,
      meshes |-> <<BodyMesh>>],
     [names |-> <<Name_Hips, Name_Spine1, Name_wrist_R>>,
      parent |-> <<0, 1, 2>>,
      world |-> <<<<0, 10>>, <<0, 13>>, <<0 - 4, 12>>>>,
      meshes |-> <<BodyMesh, StaffMesh(1, FALSE)>>]}

\* humanoid skeletons whose limbs carry side prefixes, whose legs are
\* unnamed, and with a jaw in the place of a leg
Name_L_Leg == <<"L", "_", "L", "e", "g">>
Name_R_Leg == <<"R", "_", "L", "e", "g">>

PairedModels ==
    {[names |-> <<Name_Hips, Name_Spine1, Name_Head, Name_L_Hand, Name_R_Hand>> \o legs,
      parent |-> <<0, 1, 2, 2, 2, 1, 1>>,
      world |-> <<<<0, 10>>, <<0, 13>>, <<0, 17>>, <<4, 12>>, <<0 - 4, 12>>,
                  <<2, 4>>, <<0 - 2, 4>>>>,
      meshes |-> <<>>] :
        legs \in {<<Name_L_Leg, Name_R_Leg>>, <<Name_Bone, Name_Bone>>,
                  <<Name_jaw, Name_R_Leg>>}}

\* <<model, bind variant>> of every model the asset routes can deliver
AssetModels(tag) ==
    IF tag = "generated" THEN Skeletons \X BindVariants
    ELSE IF tag = "paired" THEN PairedModels \X BindVariants
    ELSE IF tag = "chains" THEN ChainModels \X {0}
    ELSE IF tag = "humanoid" THEN HumanoidModels \X {0}
    ELSE IF tag = "sided" THEN SidedModels \X {0}
    ELSE IF tag = "armed" THEN ArmedModels \X {0}
    ELSE IF tag = "tracked" THEN TrackedModels \X {0}
    ELSE HeroModels \X {0}

\* the local transforms of the bones of a freshly loaded model
LoadedXf(model, variant) ==
    [b \in 1..Len(model.names) |->
        [position |-> <<10 * b, 5 * variant, 0 - b>>,
         quaternion |-> [base |-> 10 * b + variant, rot |-> <<>>],
         scale |-> <<1000 + 500 * variant, 1000, 1000 + b>>]]

\* transforms written by an animation clip
MixerXf(model, clip) ==
    [b \in 1..Len(model.names) |->
        [position |-> <<7 * clip, b, 3>>,
         quaternion |-> [base |-> 0 - clip, rot |-> <<>>],
         scale |-> <<2000, 2000, 2000 + clip>>]]

SignalSamples ==
    {ZeroSignals,
     Signals(<<18, 15, 50, 40, 120, 180, 60, 50, 50, 40, 0, 0, 80, 40, 15>>),
     Signals(<<30, 0 - 20, 80, 0 - 60, 0 - 80, 220, 0 - 140, 80, 0 - 160, 100, 50, 120, 180, 60, 20>>),
     Signals(<<0, 0, 0, 0, 0, 0, 0, 0, 10, 0, 0, 0 - 120, 0, 0, 0>>)}

\* the local positions of the meshes of a freshly loaded model
LoadedMeshXf(model) == [m \in 1..Len(model.meshes) |-> <<m, 0, 0>>]

\* the bones below bone, bone included
Subtree(model, bone) ==
    {b \in 1..Len(model.names) : bone \in AncestorsOrSelf(model.parent, b)}

\* model.updateWorldMatrix(true, true) after alignHeroWeapon: an aligned
\* weapon bone, with the bones below it, has moved to the hand
alignedModel(model, ud) ==
    IF ud.weaponAttachment = <<>> THEN model
    ELSE IF ud.weaponAttachment[1].weaponBone = 0 THEN model
    ELSE LET hand == model.world[ud.weaponAttachment[1].handBone]
             weapon == model.world[ud.weaponAttachment[1].weaponBone]
             moved == Subtree(model, ud.weaponAttachment[1].weaponBone)
         IN [model EXCEPT !.world =
                [b \in 1..Len(model.names) |->
                    IF b \in moved
                    THEN <<model.world[b][1] + hand[1] - weapon[1],
                           model.world[b][2] + hand[2] - weapon[2]>>
                    ELSE model.world[b]]]

\* the FBX loader's onLoad callback of the current scene effect
OnLoad ==
    /\ mounted
    /\ loading
    /\ \E asset \in AssetModels(assets) :
       \E aligned \in {alignHeroWeapon(asset[1], LoadedXf(asset[1], asset[2]),
                                        LoadedMeshXf(asset[1]), NoUserData, heroKey)} :
       \E model \in {alignedModel(asset[1], aligned.userData)} :
        LET rig == buildRig(model, aligned.xf)
        IN /\ modelRef' = <<model>>
           /\ userData' = aligned.userData
           /\ meshXf' = aligned.meshXf
           /\ boneXf' = aligned.xf
           /\ bindXf' = aligned.xf
           /\ rigRef' = rig
           /\ IF rig # <<>>
              THEN /\ poseState' = [poseState EXCEPT !.time = 0,
                                                     !.from = poseState.to,
                                                     !.blend = BlendOne]
                   /\ poseApplied' = FALSE
                   /\ wallTime' = 0
              ELSE UNCHANGED <<poseState, poseApplied, wallTime>>
    /\ rigOp' = [op |-> "load", prev |-> rigOp.op]
    /\ loading' = FALSE
    /\ loadOutcome' = "installed"
    /\ isLoading' = FALSE
    /\ UNCHANGED <<poseProp, autoplayRef, last, cumDelta, twinVars, lastSignals, error,
                   blendVars, urlVars, pageVars, routeVars, envVars, autoplayProp, speedRef, sinceRender, cfgVars,
                   mounted, staleLoads>>

\* variant: the callback does not test `cancelled`
OnLoadCancelledInstalls ==
    /\ staleLoads > 0
    /\ staleLoads' = staleLoads - 1
    /\ loadOutcome' = "installed"
    /\ \E asset \in AssetModels(assets) :
        LET xf == LoadedXf(asset[1], asset[2]) IN
        /\ modelRef' = <<asset[1]>>
        /\ boneXf' = xf
        /\ bindXf' = xf
        /\ rigRef' = buildRig(asset[1], xf)
    /\ UNCHANGED <<poseVars, twinVars, lastSignals, rigOp, blendVars, urlVars, pageVars, routeVars, statusVars, envVars, loopVars,
                   cfgVars, weaponVars, mounted, loading>>

\* the onLoad callback of a scene effect that was cleaned up: `cancelled`
\* is true, the model is disposed of
OnLoadCancelled ==
    /\ staleLoads > 0
    /\ staleLoads' = staleLoads - 1
    /\ loadOutcome' = "discarded"
    /\ UNCHANGED <<poseVars, twinVars, rigVars, blendVars, urlVars, pageVars, routeVars, statusVars, envVars, loopVars, cfgVars,
                   weaponVars, mounted, loading>>

\* the FBX loader's error callback of the current scene effect
OnError ==
    /\ mounted
    /\ loading
    /\ loading' = FALSE
    /\ loadOutcome' = "failed"
    /\ error' = <<LoadErrorMessage>>
    /\ isLoading' = FALSE
    /\ UNCHANGED <<poseVars, twinVars, rigVars, blendVars, urlVars, pageVars, routeVars,
                   envVars, loopVars, cfgVars, weaponVars, mounted, staleLoads>>

\* the error callback of a scene effect that was cleaned up: it does not
\* read `cancelled`
OnErrorCancelled ==
    /\ staleLoads > 0
    /\ staleLoads' = staleLoads - 1
    /\ loadOutcome' = "failed"
    /\ error' = <<LoadErrorMessage>>
    /\ isLoading' = FALSE
    /\ UNCHANGED <<poseVars, twinVars, rigVars, blendVars, urlVars, pageVars, routeVars,
                   envVars, loopVars, cfgVars, weaponVars, mounted, loading>>

----------------------------------------------------------------------------
(* The environment of the scene.  environmentRequestRef counts the         *)
(* requests; a load in flight is compared with it only for equality, so    *)
(* the model keeps, instead of the counter, which load in flight (if any)  *)
(* carries the current count (skyLoading) and how many carry an older one  *)
(* (staleSkyLoads): an increment of the counter makes the current load     *)
(* stale.                                                                  *)

MaxStaleSky == 8      \* most superseded sky loads in flight

EnvironmentModes == {"sky", "none"}

\* the texture of the render target made of SKY_EXR_URL
SkyTexture == "sky.exr"

EnvOf ==
    [scene |-> scene, skyEnvMapRef |-> skyEnvMapRef,
     pmremGeneratorRef |-> pmremGeneratorRef, skyLoading |-> skyLoading,
     staleSkyLoads |-> staleSkyLoads, skyOutcome |-> skyOutcome]

\* environmentRequestRef.current += 1
supersede(env) ==
    [env EXCEPT !.staleSkyLoads = IF env.skyLoading THEN @ + 1 ELSE @,
                !.skyLoading = FALSE]

\* ensureSkyEnvironment() up to its await; hasScene: sceneRef.current and
\* rendererRef.current are set
ensureSkyEnvironment(env, hasScene) ==
    IF ~hasScene THEN env
    ELSE LET made == [env EXCEPT !.pmremGeneratorRef = TRUE]
         IN IF env.skyEnvMapRef # <<>>
            THEN [made EXCEPT !.scene = [environment |-> env.skyEnvMapRef,
                                         background |-> env.skyEnvMapRef]]
            ELSE [supersede(made) EXCEPT !.skyLoading = TRUE]

applyEnvironmentMode(env, mode, hasScene) ==
    IF ~hasScene THEN env
    ELSE IF mode = "sky" THEN ensureSkyEnvironment(env, hasScene)
    ELSE [supersede(env) EXCEPT !.scene = NoEnvironment]

\* variant: the load does not compare its requestId
skyLoadedUnchecked(env, current) ==
    IF ~env.pmremGeneratorRef THEN [env EXCEPT !.skyOutcome = "threw"]
    ELSE [env EXCEPT !.skyEnvMapRef = <<SkyTexture>>,
                     !.scene = [environment |-> <<SkyTexture>>,
                                background |-> <<SkyTexture>>],
                     !.skyOutcome = "assigned"]

\* ensureSkyEnvironment() after its await, the load having succeeded;
\* current: requestId = environmentRequestRef.current.  Without a
\* generator fromEquirectangular is called on null: the TypeError is caught
skyLoaded(env, current) ==
    IF ~env.pmremGeneratorRef THEN [env EXCEPT !.skyOutcome = "threw"]
    ELSE IF ~current THEN [env EXCEPT !.skyOutcome = "disposed"]
    ELSE [env EXCEPT !.skyEnvMapRef = <<SkyTexture>>,
                     !.scene = [environment |-> <<SkyTexture>>,
                                background |-> <<SkyTexture>>],
                     !.skyOutcome = "assigned"]

SetEnv(env) ==
    /\ scene' = env.scene
    /\ skyEnvMapRef' = env.skyEnvMapRef
    /\ pmremGeneratorRef' = env.pmremGeneratorRef
    /\ skyLoading' = env.skyLoading
    /\ staleSkyLoads' = env.staleSkyLoads
    /\ skyOutcome' = env.skyOutcome

\* the environmentMode prop changes: the effect calls applyEnvironmentMode
ChangeEnvironmentMode ==
    /\ skyLoading => staleSkyLoads < MaxStaleSky
    /\ \E mode \in EnvironmentModes :
        /\ environmentMode' = mode
        /\ SetEnv(applyEnvironmentMode(EnvOf, mode, mounted))
    /\ UNCHANGED <<poseVars, twinVars, rigVars, blendVars, urlVars, pageVars, routeVars,
                   statusVars, loopVars, cfgVars, weaponVars, loadVars>>

\* the sky load of the current request completes
OnSkyLoaded ==
    /\ skyLoading
    /\ SetEnv(skyLoaded([EnvOf EXCEPT !.skyLoading = FALSE], TRUE))
    /\ UNCHANGED <<environmentMode, poseVars, twinVars, rigVars, blendVars, urlVars, pageVars,
                   routeVars, statusVars, loopVars, cfgVars, weaponVars, loadVars>>

\* a sky load of an earlier request completes
OnSkyLoadedStale ==
    /\ staleSkyLoads > 0
    /\ SetEnv(skyLoaded([EnvOf EXCEPT !.staleSkyLoads = @ - 1], FALSE))
    /\ UNCHANGED <<environmentMode, poseVars, twinVars, rigVars, blendVars, urlVars, pageVars,
                   routeVars, statusVars, loopVars, cfgVars, weaponVars, loadVars>>

\* loadAsync rejects: the catch clause logs a warning
OnSkyFailed ==
    /\ \E current \in BOOLEAN :
        /\ IF current THEN skyLoading ELSE staleSkyLoads > 0
        /\ SetEnv([EnvOf EXCEPT !.skyLoading = IF current THEN FALSE ELSE @,
                                !.staleSkyLoads = IF current THEN @ ELSE @ - 1,
                                !.skyOutcome = "failed"])
    /\ UNCHANGED <<environmentMode, poseVars, twinVars, rigVars, blendVars, urlVars, pageVars,
                   routeVars, statusVars, loopVars, cfgVars, weaponVars, loadVars>>

----------------------------------------------------------------------------
\* the scene effect runs: applyEnvironmentMode(environmentMode),
\* loadModel() and renderLoop() are started
Mount ==
    /\ ~mounted
    /\ skyLoading => staleSkyLoads < MaxStaleSky
    /\ mounted' = TRUE
    /\ loading' = TRUE
    /\ isLoading' = TRUE
    /\ error' = <<>>
    /\ SetEnv(applyEnvironmentMode(EnvOf, environmentMode, TRUE))
    /\ sinceRender' = SinceCap
    /\ UNCHANGED <<poseVars, twinVars, rigVars, blendVars, urlVars, pageVars, routeVars,
                   environmentMode, autoplayProp, speedRef,
                   wallTime, cfgVars, weaponVars, staleLoads, loadOutcome>>

\* the cleanup of the scene effect
Cleanup ==
    /\ mounted
    /\ loading => staleLoads < MaxStale
    /\ mounted' = FALSE
    /\ loading' = FALSE
    /\ staleLoads' = IF loading THEN staleLoads + 1 ELSE staleLoads
    /\ modelRef' = <<>>
    /\ rigRef' = <<>>
    /\ userData' = NoUserData
    /\ meshXf' = <<>>
    /\ boneXf' = <<>>
    /\ bindXf' = <<>>
    /\ rigOp' = [op |-> "none", prev |-> "none"]
    /\ lastSignals' = ZeroSignals
    /\ SetEnv([EnvOf EXCEPT !.scene = NoEnvironment, !.skyEnvMapRef = <<>>,
                            !.pmremGeneratorRef = FALSE])
    /\ UNCHANGED <<poseVars, twinVars, blendVars, urlVars, pageVars, routeVars, statusVars,
                   environmentMode, loopVars, cfgVars, loadOutcome>>

CallApplyPoseToRig ==
    /\ rigRef # <<>>
    /\ \E signals \in SignalSamples :
        /\ boneXf' = applyPoseToRig(rigRef[1], boneXf, signals)
        /\ lastSignals' = signals
    /\ rigOp' = [op |-> "apply", prev |-> rigOp.op]
    /\ UNCHANGED <<poseVars, twinVars, modelRef, rigRef, bindXf,
                   blendVars, urlVars, pageVars, routeVars, statusVars, envVars, loopVars, cfgVars, weaponVars, loadVars>>

\* mixer.update(delta) with a playing clip writes the bones
MixerUpdate ==
    /\ modelRef # <<>>
    /\ Len(boneXf) > 0
    /\ \E clip \in {1, 2} : boneXf' = MixerXf(modelRef[1], clip)
    /\ rigOp' = [op |-> "mixer", prev |-> rigOp.op]
    /\ lastSignals' = ZeroSignals
    /\ UNCHANGED <<poseVars, twinVars, modelRef, rigRef, bindXf,
                   blendVars, urlVars, pageVars, routeVars, statusVars, envVars, loopVars, cfgVars, weaponVars, loadVars>>

InitOfRig ==
    /\ poseProp = "idle"
    /\ poseState = [from |-> "static", to |-> "idle", blend |-> 0, time |-> 0]
    /\ autoplayRef = TRUE
    /\ poseApplied = TRUE
    /\ last = NoHistory
    /\ cumDelta = 0
    /\ InitTwinOff
    /\ InitBlend
    /\ InitLoopIdle
    /\ InitNoModel
    /\ InitPageIdle
    /\ InitRouteIdle /\ InitStatus /\ InitEnvNone
    /\ InitUrlIdle

\* the viewer loading the named skeletons
InitOfClassify ==
    /\ poseProp = "idle"
    /\ poseState = InitialPoseState("idle")
    /\ autoplayRef = TRUE
    /\ poseApplied = FALSE
    /\ last = NoHistory
    /\ cumDelta = ThirdSecond
    /\ InitTwinOff
    /\ InitBlend
    /\ autoplayProp = TRUE
    /\ speedRef = SpeedUnit
    /\ sinceRender = 0
    /\ wallTime = 0
    /\ idleFps = DefaultIdleFps
    /\ assets \in {"chains", "humanoid", "sided"}
    /\ heroKey = Undefined
    /\ InitNoModel
    /\ InitPageIdle
    /\ InitRouteIdle /\ InitStatus /\ InitEnvNone
    /\ InitUrlIdle

NextClassify == OnLoad

SpecClassify == InitOfClassify /\ [][NextClassify]_vars

NextRig == OnLoad \/ Cleanup \/ Mount \/ CallApplyPoseToRig \/ MixerUpdate

SpecRig == InitOfRig /\ [][NextRig]_vars

\* the viewer loading the side-prefixed humanoids and the three-bone
\* skeletons, and posing them
InitOfOrder ==
    /\ poseProp = "idle"
    /\ poseState = InitialPoseState("idle")
    /\ autoplayRef = TRUE
    /\ poseApplied = FALSE
    /\ last = NoHistory
    /\ cumDelta = ThirdSecond
    /\ InitTwinOff
    /\ InitBlend
    /\ autoplayProp = TRUE
    /\ speedRef = SpeedUnit
    /\ sinceRender = 0
    /\ wallTime = 0
    /\ idleFps = DefaultIdleFps
    /\ assets \in {"paired", "sided"}
    /\ heroKey = Undefined
    /\ InitNoModel
    /\ InitPageIdle
    /\ InitRouteIdle /\ InitStatus /\ InitEnvNone
    /\ InitUrlIdle

NextOrder == OnLoad \/ Cleanup \/ Mount \/ CallApplyPoseToRig

SpecOrder == InitOfOrder /\ [][NextOrder]_vars

----------------------------------------------------------------------------
(* The blender applied to sampled signal vectors *)

BlendSamples ==
    SignalSamples
        \cup {getPoseSignals(pose, time) : pose \in PoseNames, time \in {0, 50, MaxTime}}

BlendFactors == {0, 1, BlendRate, BlendOne \div 2, BlendOne - 1, BlendOne}

\* the inputs are drawn in the initial state; blendOut is <<>> until the
\* call has returned and <<result>> afterwards
CallBlendSignals ==
    /\ blendOut = <<>>
    /\ blendOut' = <<blendSignals(blendIn.a, blendIn.b, blendIn.t)>>
    /\ UNCHANGED <<blendIn, urlVars, pageVars, routeVars, statusVars, envVars, poseVars, twinVars, rigVars, loopVars, cfgVars, weaponVars, loadVars>>

InitOfBlend ==
    /\ poseProp = "idle"
    /\ poseState = InitialPoseState("idle")
    /\ autoplayRef = TRUE
    /\ poseApplied = FALSE
    /\ last = NoHistory
    /\ cumDelta = ThirdSecond
    /\ InitTwinOff
    /\ InitLoopIdle
    /\ InitNoModel
    /\ InitPageIdle
    /\ InitRouteIdle /\ InitStatus /\ InitEnvNone
    /\ InitUrlIdle
    /\ blendIn \in [a : BlendSamples, b : BlendSamples, t : BlendFactors]
    /\ blendOut = <<>>

NextBlend == CallBlendSignals

SpecBlend == InitOfBlend /\ [][NextBlend]_vars

----------------------------------------------------------------------------
(* The render loop and the handlers of the mounted viewer *)

FrameDeltas == {1, 2, 5, ThirdSecond}


\* variant: the weapon follows the hand before the pose of the frame is
\* written to the bones
frameStepWeaponFirst(modelOpt, rigOpt, ud, key, xf, mxf, state, applied, delta, speed, autoplay) ==
    LET poseAnimating == autoplay \/ state.blend < BlendOne
        poseNeedsUpdate == poseAnimating \/ ~applied
        posing == rigOpt # <<>> /\ poseNeedsUpdate
        advanced == IF posing /\ poseAnimating
                    THEN updatePoseState(state, delta, speed, autoplay)
                    ELSE state
        toSignals == getPoseSignals(advanced.to, advanced.time)
        blendedSignals ==
            IF advanced.blend < BlendOne
            THEN blendSignals(getPoseSignals(advanced.from, advanced.time),
                              toSignals, advanced.blend)
            ELSE toSignals
        tracked == IF poseNeedsUpdate /\ modelOpt # <<>>
                   THEN updateHeroWeaponAttachment(modelOpt[1], xf, mxf, ud, key)
                   ELSE [xf |-> xf, meshXf |-> mxf]
        posed == IF posing THEN applyPoseToRig(rigOpt[1], tracked.xf, blendedSignals)
                 ELSE tracked.xf
    IN [posing |-> posing, animating |-> poseAnimating, state |-> advanced,
        signals |-> blendedSignals, xf |-> posed, meshXf |-> tracked.meshXf]

\* the body of a rendered frame after the mixer: the pose block and the
\* weapon update
frameStep(modelOpt, rigOpt, ud, key, xf, mxf, state, applied, delta, speed, autoplay) ==
    LET poseAnimating == autoplay \/ state.blend < BlendOne
        poseNeedsUpdate == poseAnimating \/ ~applied
        posing == rigOpt # <<>> /\ poseNeedsUpdate
        advanced == IF posing /\ poseAnimating
                    THEN updatePoseState(state, delta, speed, autoplay)
                    ELSE state
        toSignals == getPoseSignals(advanced.to, advanced.time)
        blendedSignals ==
            IF advanced.blend < BlendOne
            THEN blendSignals(getPoseSignals(advanced.from, advanced.time),
                              toSignals, advanced.blend)
            ELSE toSignals
        posed == IF posing THEN applyPoseToRig(rigOpt[1], xf, blendedSignals) ELSE xf
        tracked == IF poseNeedsUpdate /\ modelOpt # <<>>
                   THEN updateHeroWeaponAttachment(modelOpt[1], posed, mxf, ud, key)
                   ELSE [xf |-> posed, meshXf |-> mxf]
    IN [posing |-> posing, animating |-> poseAnimating, state |-> advanced,
        signals |-> blendedSignals, xf |-> tracked.xf, meshXf |-> tracked.meshXf]

\* one requestAnimationFrame callback of renderLoop; d ticks have passed
\* since the previous callback
renderLoopWithin(d, controlsUpdated, maxTime) ==
        LET delta == d
            since == Min(SinceCap, sinceRender + d)
            hasAction == FALSE
            poseAnimating == autoplayRef \/ poseState.blend < BlendOne
            poseNeedsUpdate == poseAnimating \/ ~poseApplied
            shouldAnimate == hasAction \/ poseNeedsUpdate \/ controlsUpdated
            targetFps == IF shouldAnimate THEN ActiveFps ELSE idleFps
        IN /\ mounted
           /\ autoplayRef => poseState.time + delta * speedRef <= maxTime
           /\ IF since * targetFps < TicksPerSecond
              THEN /\ sinceRender' = since
                   /\ UNCHANGED <<poseVars, rigVars, weaponVars>>
              ELSE \E frame \in {frameStep(modelRef, rigRef, userData, heroKey, boneXf,
                                             meshXf, poseState, poseApplied, delta,
                                             speedRef, autoplayRef)} :
                   /\ sinceRender' = 0
                   /\ boneXf' = frame.xf
                   /\ meshXf' = frame.meshXf
                   /\ IF frame.posing
                      THEN /\ poseState' = frame.state
                           /\ last' = IF frame.animating
                                      THEN History("updatePoseState", poseState,
                                                   poseState.to, delta)
                                      ELSE last
                           /\ cumDelta' = IF frame.animating
                                          THEN Min(ThirdSecond, cumDelta + delta)
                                          ELSE cumDelta
                           /\ lastSignals' = frame.signals
                           /\ rigOp' = [op |-> "apply", prev |-> rigOp.op]
                           /\ poseApplied' = TRUE
                           /\ UNCHANGED <<poseProp, autoplayRef>>
                      ELSE UNCHANGED <<poseVars, lastSignals, rigOp>>
                   /\ UNCHANGED <<modelRef, rigRef, bindXf, userData>>
           /\ UNCHANGED <<twinVars, blendVars, urlVars, pageVars, routeVars, statusVars, envVars, autoplayProp, speedRef, cfgVars, loadVars>>

\* the callback with the pose clock followed up to MaxTime
renderLoop(d, controlsUpdated) == renderLoopWithin(d, controlsUpdated, MaxTime)

\* the callbacks of the mounted viewer arrive 1/30 s or 1/3 s apart and the
\* pose clock is followed up to LoopMaxTime
LoopMaxTime == 32
LoopDeltas == {4, ThirdSecond}

RenderLoop ==
    \E d \in LoopDeltas, controlsUpdated \in BOOLEAN :
        /\ autoplayRef => poseState.time + d * speedRef <= LoopMaxTime
        /\ renderLoop(d, controlsUpdated)
        /\ UNCHANGED wallTime

\* the same callback, with the wall clock the deltas were read from
RenderLoopTimed ==
    \E d \in FrameDeltas, controlsUpdated \in BOOLEAN :
        /\ renderLoop(d, controlsUpdated)
        /\ wallTime + d * speedRef <= MaxTime
        /\ wallTime' = IF autoplayRef /\ rigRef # <<>>
                       THEN wallTime + d * speedRef ELSE wallTime

\* useEffect(..., [autoplay]): the autoplay prop is toggled
ChangeAutoplay ==
    /\ autoplayProp' = ~autoplayProp
    /\ autoplayRef' = autoplayProp'
    /\ UNCHANGED <<poseState, poseProp, poseApplied, last, cumDelta, twinVars,
                   rigVars, blendVars, urlVars, pageVars, routeVars, statusVars, envVars, speedRef, sinceRender, wallTime, cfgVars, weaponVars, loadVars>>

\* useEffect(..., [speed]): the speed prop changes
ChangeSpeed ==
    /\ \E speed \in Speeds \ {speedRef} : speedRef' = speed
    /\ UNCHANGED <<poseVars, twinVars, rigVars, blendVars, urlVars, pageVars, routeVars, statusVars, envVars, autoplayProp,
                   sinceRender, wallTime, cfgVars, weaponVars, loadVars>>

InitOfLoop ==
    /\ poseProp = "idle"
    /\ poseState = InitialPoseState("idle")
    /\ autoplayRef = TRUE
    /\ autoplayProp = TRUE
    /\ poseApplied = FALSE
    /\ last = NoHistory
    /\ cumDelta = ThirdSecond
    /\ InitTwinOff
    /\ InitBlend
    /\ speedRef = SpeedUnit
    /\ sinceRender = SinceCap
    /\ wallTime = 0
    /\ idleFps \in {DefaultIdleFps, LowEndIdleFps}
    /\ assets = "heroes"
    /\ heroKey = Undefined
    /\ InitNoModel
    /\ InitPageIdle
    /\ InitRouteIdle /\ InitStatus /\ InitEnvNone
    /\ InitUrlIdle

NextLoop ==
    \/ OnLoad
    \/ RenderLoop
    \/ ChangePose
    \/ ChangeAutoplay
    \/ CallResetPose

SpecLoop == InitOfLoop /\ [][NextLoop]_vars

\* the mounted viewer with autoplay left on: model load and frames only
InitOfThrottle ==
    /\ InitOfLoop
    /\ idleFps = DefaultIdleFps

NextThrottle == OnLoad \/ RenderLoopTimed \/ ChangeSpeed

SpecThrottle == InitOfThrottle /\ [][NextThrottle]_vars

\* the viewer playing a side-prefixed humanoid over whole periods of the
\* gait wave
DriftMaxTime == 1440
DriftDeltas == {25, ThirdSecond}

DriftFrame ==
    \E d \in DriftDeltas :
        /\ renderLoopWithin(d, FALSE, DriftMaxTime)
        /\ UNCHANGED wallTime

InitOfDrift ==
    /\ poseProp = "idle"
    /\ poseState = InitialPoseState("idle")
    /\ autoplayRef = TRUE
    /\ autoplayProp = TRUE
    /\ poseApplied = FALSE
    /\ last = NoHistory
    /\ cumDelta = ThirdSecond
    /\ InitTwinOff
    /\ InitBlend
    /\ speedRef = SpeedUnit
    /\ sinceRender = SinceCap
    /\ wallTime = 0
    /\ idleFps = DefaultIdleFps
    /\ assets = "paired"
    /\ heroKey = Undefined
    /\ InitNoModel
    /\ InitPageIdle
    /\ InitRouteIdle /\ InitStatus /\ InitEnvNone
    /\ InitUrlIdle

NextDrift == OnLoad \/ DriftFrame \/ ChangePose

SpecDrift == InitOfDrift /\ [][NextDrift]_vars

\* the viewer of a hero whose models may carry a weapon: the scene effect
\* is cleaned up and run again while loads are in flight
HeroKeys == {Undefined, "monkey_king", "axe"}

WeaponFrame ==
    \E d \in {4} :
        /\ autoplayRef => poseState.time + d * speedRef <= LoopMaxTime
        /\ renderLoop(d, FALSE)
        /\ UNCHANGED wallTime

InitOfWeapon ==
    /\ poseProp = "idle"
    /\ poseState = InitialPoseState("idle")
    /\ autoplayRef = TRUE
    /\ autoplayProp = TRUE
    /\ poseApplied = FALSE
    /\ last = NoHistory
    /\ cumDelta = ThirdSecond
    /\ InitTwinOff
    /\ InitBlend
    /\ speedRef = SpeedUnit
    /\ sinceRender = SinceCap
    /\ wallTime = 0
    /\ idleFps = DefaultIdleFps
    /\ assets = "armed"
    /\ heroKey \in HeroKeys
    /\ InitNoModel
    /\ InitPageIdle
    /\ InitRouteIdle /\ InitStatus /\ InitEnvNone
    /\ InitUrlIdle

NextWeapon ==
    \/ OnLoad
    \/ OnLoadCancelled
    \/ Cleanup
    \/ Mount
    \/ WeaponFrame

SpecWeapon == InitOfWeapon /\ [][NextWeapon]_vars

\* the viewer of monkey_king: pose and autoplay changes between the frames
InitOfFrame ==
    /\ poseProp = "idle"
    /\ poseState = InitialPoseState("idle")
    /\ autoplayRef = TRUE
    /\ autoplayProp = TRUE
    /\ poseApplied = FALSE
    /\ last = NoHistory
    /\ cumDelta = ThirdSecond
    /\ InitTwinOff
    /\ InitBlend
    /\ speedRef = SpeedUnit
    /\ sinceRender = SinceCap
    /\ wallTime = 0
    /\ idleFps = DefaultIdleFps
    /\ assets = "tracked"
    /\ heroKey = "monkey_king"
    /\ InitNoModel
    /\ InitPageIdle
    /\ InitRouteIdle /\ InitStatus /\ InitEnvNone
    /\ InitUrlIdle

NextFrame ==
    \/ OnLoad
    \/ RenderLoop
    \/ ChangePose
    \/ ChangeAutoplay

SpecFrame == InitOfFrame /\ [][NextFrame]_vars

\* handleResetCamera of the hero page: resetPose("static") through the
\* imperative handle, then the URL state is set to its defaults and the
\* effects of the changed props run (autoplay and speed; the pose effect
\* only when the pose prop was not "static")
HandleResetCamera ==
    /\ mounted
    /\ poseState' = setPoseTarget(resetPoseState(poseState, "static"), "static")
    /\ poseApplied' = IF poseProp # "static" THEN FALSE ELSE poseApplied
    /\ poseProp' = "static"
    /\ autoplayRef' = FALSE
    /\ autoplayProp' = FALSE
    /\ speedRef' = SpeedUnit
    /\ last' = History("resetPose", poseState, "static", 0)
    /\ cumDelta' = ThirdSecond
    /\ wallTime' = 0
    /\ UNCHANGED <<twinVars, rigVars, blendVars, urlVars, pageVars, routeVars, statusVars, envVars, sinceRender, cfgVars,
                   weaponVars, loadVars>>

NextReset == NextFrame \/ HandleResetCamera

SpecReset == InitOfFrame /\ [][NextReset]_vars

\* the loads of the model, their callbacks and the scene effect
NextStatus ==
    OnLoad \/ OnLoadCancelled \/ OnError \/ OnErrorCancelled \/ Cleanup \/ Mount

SpecStatus == InitOfOrder /\ [][NextStatus]_vars

\* a viewer whose scene effect has applied its environment mode
InitOfEnv ==
    /\ poseProp = "idle"
    /\ poseState = InitialPoseState("idle")
    /\ autoplayRef = TRUE
    /\ poseApplied = FALSE
    /\ last = NoHistory
    /\ cumDelta = ThirdSecond
    /\ InitTwinOff
    /\ InitBlend
    /\ autoplayProp = TRUE
    /\ speedRef = SpeedUnit
    /\ sinceRender = 0
    /\ wallTime = 0
    /\ idleFps = DefaultIdleFps
    /\ assets = "paired"
    /\ heroKey = Undefined
    /\ InitNoModel
    /\ InitPageIdle
    /\ InitRouteIdle
    /\ InitStatus
    /\ InitUrlIdle
    /\ environmentMode \in EnvironmentModes
    /\ \E env \in {applyEnvironmentMode(
                       [scene |-> NoEnvironment, skyEnvMapRef |-> <<>>,
                        pmremGeneratorRef |-> FALSE, skyLoading |-> FALSE,
                        staleSkyLoads |-> 0, skyOutcome |-> "none"],
                       environmentMode, TRUE)} :
        /\ scene = env.scene
        /\ skyEnvMapRef = env.skyEnvMapRef
        /\ pmremGeneratorRef = env.pmremGeneratorRef
        /\ skyLoading = env.skyLoading
        /\ staleSkyLoads = env.staleSkyLoads
        /\ skyOutcome = env.skyOutcome

\* the changes of the environment mode and the outcomes of the sky loads
NextEnv ==
    ChangeEnvironmentMode \/ OnSkyLoaded \/ OnSkyLoadedStale \/ OnSkyFailed

SpecEnv == InitOfEnv /\ [][NextEnv]_vars

----------------------------------------------------------------------------
(* URL state (src/lib/urlState.ts).  A URLSearchParams is the record of    *)
(* the five parameters read: <<>> for an absent one, <<value>> otherwise.  *)
(* Numbers are in 1/1000; a decimal string is a sequence of characters.    *)

UrlSpeedUnit == 1000    \* speed 1
UrlMinSpeed == 250      \* speed 0.25
UrlMaxSpeed == 2000     \* speed 2
NotANumber == 0 - 1     \* NaN; the numbers that are read are not negative

URL_POSE_OPTIONS == {"static", "idle", "seizure"}

LightingPresets == {"studio", "neutral", "dim", "rim"}

DEFAULT_URL_STATE ==
    [anim |-> <<>>, pose |-> "idle", speed |-> UrlSpeedUnit, preset |-> "studio",
     autoplay |-> TRUE]

\* the decimal digits of a natural number
RECURSIVE ToDigits(_)
ToDigits(n) ==
    IF n < 10 THEN <<DigitChars[n + 1]>>
    ELSE Append(ToDigits(n \div 10), DigitChars[(n % 10) + 1])

\* variant: one fraction digit
toFixed1(x) ==
    LET tenths == (x + 50) \div 100
    IN ToDigits(tenths \div 10) \o <<".", DigitChars[(tenths % 10) + 1]>>

\* x.toFixed(2) of a number x >= 0 that is not halfway between two hundredths
toFixed2(x) ==
    LET hundredths == (x + 5) \div 10
    IN ToDigits(hundredths \div 100)
         \o <<".", DigitChars[((hundredths \div 10) % 10) + 1],
               DigitChars[(hundredths % 10) + 1]>>

\* the value of a sequence of digits, NotANumber if it is not one
RECURSIVE DigitsValue(_)
DigitsValue(chars) ==
    IF Len(chars) = 0 THEN 0
    ELSE LET digit == IndexIn(chars[Len(chars)], DigitChars, 1) - 1
             front == DigitsValue(SubSeq(chars, 1, Len(chars) - 1))
         IN IF digit < 0 \/ front = NotANumber THEN NotANumber
            ELSE 10 * front + digit

\* Number(value) for null, "" and the unsigned decimal strings with at most
\* three fraction digits; the other strings of the model ("abc", "Infinity",
\* "NaN") are no finite numbers and give NotANumber
ToNumber(value) ==
    IF value = <<>> THEN 0
    ELSE LET chars == value[1]
             dot == IndexIn(".", chars, 1)
             whole == IF dot = 0 THEN chars ELSE SubSeq(chars, 1, dot - 1)
             fraction == IF dot = 0 THEN <<>> ELSE SubSeq(chars, dot + 1, Len(chars))
             padded == fraction \o SubSeq(<<"0", "0", "0">>, 1, 3 - Len(fraction))
         IN IF Len(chars) = 0 THEN 0
            ELSE IF Len(fraction) > 3 \/ Len(whole) + Len(fraction) = 0 THEN NotANumber
            ELSE IF DigitsValue(whole) = NotANumber \/ DigitsValue(fraction) = NotANumber
            THEN NotANumber
            ELSE 1000 * DigitsValue(whole) + DigitsValue(padded)

isPose(value) == value # <<>> /\ value[1] \in URL_POSE_OPTIONS

\* value.toLowerCase() on the strings the model reads
UrlToLowerCase(str) ==
    IF str = "Running" THEN "running"
    ELSE IF str = "STUNNED" THEN "stunned"
    ELSE str

\* normalizeLegacyPose(value): <<>> for null
normalizeLegacyPose(value) ==
    IF value = <<>> THEN <<>>
    ELSE IF value[1] = "" THEN <<>>
    ELSE LET lower == UrlToLowerCase(value[1])
         IN IF lower \in {"running", "sprinting", "laugh"} THEN <<"seizure">>
            ELSE IF lower \in {"walking", "stunned"} THEN <<"idle">>
            ELSE <<>>

parseUrlState(params) ==
    LET anim == params.anim
        poseParam == params.pose
        speedParam == ToNumber(params.speed)
        preset == params.preset
        autoplayParam == params.autoplay
        clampedSpeed == IF speedParam # NotANumber
                        THEN Min(Max(speedParam, UrlMinSpeed), UrlMaxSpeed)
                        ELSE DEFAULT_URL_STATE.speed
    IN [anim |-> IF anim # <<>> /\ anim # <<"">> THEN anim ELSE <<>>,
        pose |-> IF isPose(poseParam) THEN poseParam[1]
                 ELSE IF normalizeLegacyPose(poseParam) # <<>>
                 THEN normalizeLegacyPose(poseParam)[1]
                 ELSE DEFAULT_URL_STATE.pose,
        speed |-> clampedSpeed,
        preset |-> IF preset # <<>> /\ preset[1] \in LightingPresets THEN preset[1]
                   ELSE DEFAULT_URL_STATE.preset,
        autoplay |-> IF autoplayParam = <<"0">> THEN FALSE
                     ELSE DEFAULT_URL_STATE.autoplay]

serializeUrlState(state) ==
    [anim |-> IF state.anim # <<>> /\ state.anim # <<"">> THEN state.anim ELSE <<>>,
     pose |-> <<state.pose>>,
     speed |-> <<toFixed2(state.speed)>>,
     preset |-> <<state.preset>>,
     autoplay |-> <<IF state.autoplay THEN "1" ELSE "0">>]

\* the speeds of the URL states that are serialized: the ends of the range,
\* a few hundredths in it, and speeds off the grid and off the range
UrlSpeeds == {0, 100, 250, 252, 260, 500, 990, 1000, 1004, 1250, 1990, 2000, 2010, 3000}

UrlAnims == {<<>>, <<"">>, <<"idle">>, <<"Take 001">>}

UrlStates ==
    [anim : UrlAnims, pose : URL_POSE_OPTIONS, speed : UrlSpeeds,
     preset : LightingPresets, autoplay : BOOLEAN]

\* a UrlState is written to the query string and read back
CallRoundTrip ==
    /\ urlIn # <<>>
    /\ urlOut = <<>>
    /\ urlOut' = <<parseUrlState(serializeUrlState(urlIn[1]))>>
    /\ UNCHANGED <<urlIn, pageVars, routeVars, statusVars, envVars, poseVars, twinVars, rigVars, blendVars,
                   loopVars, cfgVars, weaponVars, loadVars>>

InitOfUrl ==
    /\ InitPose
    /\ InitTwinOff
    /\ InitBlend
    /\ InitLoopIdle
    /\ InitNoModel
    /\ InitPageIdle
    /\ InitRouteIdle /\ InitStatus /\ InitEnvNone
    /\ urlIn \in {<<state>> : state \in UrlStates}
    /\ urlOut = <<>>

NextUrl == CallRoundTrip

SpecUrl == InitOfUrl /\ [][NextUrl]_vars

\* the speed parameters of the query strings that are parsed: absent,
\* empty, no numbers, and numbers below, in and above the range
SpeedParams ==
    {<<>>, <<<<>>>>, <<<<"a", "b", "c">>>>, <<<<"I", "n", "f", "i", "n", "i", "t", "y">>>>,
     <<<<"N", "a", "N">>>>, <<<<"0">>>>, <<<<"0", ".", "1">>>>, <<<<"0", ".", "2", "5">>>>,
     <<<<"1">>>>, <<<<"1", ".", "5">>>>, <<<<"2">>>>, <<<<"2", ".", "0", "0", "1">>>>,
     <<<<"3">>>>}

UrlParams ==
    [anim : {<<>>, <<"idle">>},
     pose : {<<>>, <<"static">>, <<"Walking">>},
     speed : SpeedParams,
     preset : {<<>>, <<"dim">>},
     autoplay : {<<>>, <<"0">>}]

\* a query string is parsed
CallParseUrlState ==
    /\ urlIn # <<>>
    /\ urlOut = <<>>
    /\ urlOut' = <<parseUrlState(urlIn[1])>>
    /\ UNCHANGED <<urlIn, pageVars, routeVars, statusVars, envVars, poseVars, twinVars, rigVars, blendVars,
                   loopVars, cfgVars, weaponVars, loadVars>>

InitOfParse ==
    /\ InitPose
    /\ InitTwinOff
    /\ InitBlend
    /\ InitLoopIdle
    /\ InitNoModel
    /\ InitPageIdle
    /\ InitRouteIdle /\ InitStatus /\ InitEnvNone
    /\ urlIn \in {<<params>> : params \in UrlParams}
    /\ urlOut = <<>>

NextParse == CallParseUrlState

SpecParse == InitOfParse /\ [][NextParse]_vars

----------------------------------------------------------------------------
(* The asset route handlers (src/app/assets/[...path]/route.ts and its two *)
(* copies for bio_assets and env_assets).  A path is a sequence of         *)
(* characters; a directory is named by the sequence of its components.     *)

MaxSegments == 3      \* most path segments of a request

\* process.cwd()
Cwd == <<<<"a", "p", "p">>>>

\* the directory names of ASSETS_ROOT, BIO_ASSETS_ROOT and ENV_ASSETS_ROOT
RootNames == {<<"a", "s", "s", "e", "t", "s">>, <<"b", "i", "o", "_", "a", "s", "s", "e", "t", "s">>, <<"e", "n", "v", "_", "a", "s", "s", "e", "t", "s">>}

\* the path segments of the requests
SegmentNames ==
    {<<".", ".">>, <<".">>, <<"k", "e", "z">>, <<"a", "s", "s", "e", "t", "s">>, <<"a", "s", "s", "e", "t", "s", "_", "o", "l", "d">>, <<"k", "e", "z", ".", "f", "b", "x">>}

\* path.join / the string of an absolute path with the given components
RECURSIVE JoinComponents(_)
JoinComponents(components) ==
    IF components = <<>> THEN <<>>
    ELSE <<"/">> \o Head(components) \o JoinComponents(Tail(components))

PathString(components) ==
    IF components = <<>> THEN <<"/">> ELSE JoinComponents(components)

\* path.resolve(base, ...segments): the components of the resolved path
RECURSIVE ResolveComponents(_, _)
ResolveComponents(base, segs) ==
    IF segs = <<>> THEN base
    ELSE IF Head(segs) = <<".", ".">>
    THEN ResolveComponents(SubSeq(base, 1, Len(base) - 1), Tail(segs))
    ELSE IF Head(segs) = <<".">> \/ Head(segs) = <<>>
    THEN ResolveComponents(base, Tail(segs))
    ELSE ResolveComponents(Append(base, Head(segs)), Tail(segs))

\* String.prototype.startsWith
startsWith(str, prefix) ==
    /\ Len(prefix) <= Len(str)
    /\ SubSeq(str, 1, Len(prefix)) = prefix

\* resolveAssetPath(segments) of the route whose root directory is
\* path.join(process.cwd(), root): <<>> for null, <<path>> otherwise
resolveAssetPath(root, segs) ==
    LET ASSETS_ROOT == PathString(Append(Cwd, root))
        resolved == PathString(ResolveComponents(Append(Cwd, root), segs))
    IN IF ~startsWith(resolved, ASSETS_ROOT) THEN <<>>
       ELSE <<resolved>>

\* GET of an asset route calls resolveAssetPath(params.path ?? [])
CallResolveAssetPath ==
    /\ assetRequest # <<>>
    /\ resolvedPath = <<>>
    /\ resolvedPath' = <<resolveAssetPath(assetRequest[1].root, assetRequest[1].segments)>>
    /\ UNCHANGED <<assetRequest, statusVars, envVars, urlVars, pageVars, poseVars, twinVars, rigVars, blendVars,
                   loopVars, cfgVars, weaponVars, loadVars>>

AssetRequests ==
    UNION {[root : RootNames, segments : [1..n -> SegmentNames]] : n \in 0..MaxSegments}

InitOfRoute ==
    /\ InitPose
    /\ InitTwinOff
    /\ InitBlend
    /\ InitLoopIdle
    /\ InitNoModel
    /\ InitUrlIdle
    /\ InitPageIdle
    /\ assetRequest \in {<<request>> : request \in AssetRequests}
    /\ resolvedPath = <<>>
    /\ InitStatus
    /\ InitEnvNone

NextRoute == CallResolveAssetPath

SpecRoute == InitOfRoute /\ [][NextRoute]_vars

----------------------------------------------------------------------------
(* The two effects of the hero page that keep urlState and the query       *)
(* string in step (src/app/hero/page.tsx).  router.replace is asynchronous:*)
(* a call is queued and the new query string is seen by useSearchParams    *)
(* when the call is delivered; calls are delivered in the order they were  *)
(* made.                                                                   *)

MaxPending == 3       \* most router.replace calls in flight

\* a query string without parameters
EmptyParams ==
    [anim |-> <<>>, pose |-> <<>>, speed |-> <<>>, preset |-> <<>>, autoplay |-> <<>>]

areUrlStatesEqual(a, b) ==
    /\ a.anim = b.anim
    /\ a.pose = b.pose
    /\ a.speed = b.speed
    /\ a.autoplay = b.autoplay

\* the second effect (deps [router, urlState]) run for urlState = state:
\* lastSerializedRef and the queue of router.replace calls after it
replaceEffect(state, lastRef, pending) ==
    LET params == serializeUrlState(state)
    IN IF lastRef = <<params>>
       THEN [lastRef |-> lastRef, pending |-> pending]
       ELSE [lastRef |-> <<params>>, pending |-> Append(pending, params)]

\* the first effect (deps [parsedState, searchParams]) run for the query
\* string current: urlState after it
parseEffect(state, lastRef, current) ==
    IF lastRef = <<current>> THEN state
    ELSE IF areUrlStatesEqual(state, parseUrlState(current)) THEN state
    ELSE parseUrlState(current)

\* the states the controls of the page can choose: the archetype picker
\* and the autoplay toggle
PageChoices(state) ==
    {[state EXCEPT !.pose = pose] : pose \in URL_POSE_OPTIONS \ {state.pose}}
        \cup {[state EXCEPT !.autoplay = ~state.autoplay]}

\* a control of the page calls setUrlState; the page renders and the second
\* effect runs
UserChange ==
    /\ urlState # <<>>
    /\ Len(pendingReplace) < MaxPending
    /\ \E next \in PageChoices(urlState[1]) :
       \E effect \in {replaceEffect(next, lastSerializedRef, pendingReplace)} :
          /\ urlState' = <<next>>
          /\ lastChosen' = <<next>>
          /\ lastSerializedRef' = effect.lastRef
          /\ pendingReplace' = effect.pending
    /\ UNCHANGED <<searchParams, urlIn, urlOut, routeVars, statusVars, envVars, poseVars, twinVars, rigVars,
                   blendVars, loopVars, cfgVars, weaponVars, loadVars>>

\* the oldest router.replace call is delivered: useSearchParams returns the
\* new query string, the first effect runs and, when it has changed
\* urlState, the second effect runs
DeliverReplace ==
    /\ pendingReplace # <<>>
    /\ \E current \in {Head(pendingReplace)} :
       \E state \in {parseEffect(urlState[1], lastSerializedRef, current)} :
       \E effect \in {IF state = urlState[1]
                       THEN [lastRef |-> lastSerializedRef, pending |-> Tail(pendingReplace)]
                       ELSE replaceEffect(state, lastSerializedRef, Tail(pendingReplace))} :
          /\ searchParams' = current
          /\ urlState' = <<state>>
          /\ lastSerializedRef' = effect.lastRef
          /\ pendingReplace' = effect.pending
    /\ UNCHANGED <<lastChosen, urlIn, urlOut, routeVars, statusVars, envVars, poseVars, twinVars, rigVars,
                   blendVars, loopVars, cfgVars, weaponVars, loadVars>>

\* the page has been opened on a query string and its effects have run for
\* the first time
InitOfSync ==
    /\ InitPose
    /\ InitTwinOff
    /\ InitBlend
    /\ InitLoopIdle
    /\ InitNoModel
    /\ InitUrlIdle
    /\ InitRouteIdle /\ InitStatus /\ InitEnvNone
    /\ searchParams \in {EmptyParams, serializeUrlState(DEFAULT_URL_STATE),
                         [EmptyParams EXCEPT !.pose = <<"walking">>, !.preset = <<"dim">>]}
    /\ urlState = <<parseUrlState(searchParams)>>
    /\ lastChosen = urlState
    /\ lastSerializedRef = replaceEffect(urlState[1], <<>>, <<>>).lastRef
    /\ pendingReplace = replaceEffect(urlState[1], <<>>, <<>>).pending

NextSync == UserChange \/ DeliverReplace

SpecSync == InitOfSync /\ [][NextSync]_vars

----------------------------------------------------------------------------
(* Properties of the pose transition state machine *)

\* C1: once a transition was started by setPoseTarget, updatePoseState calls
\* whose deltas add up to at least 1/3 s leave blend == 1 and from == to,
\* however the total is split into calls.
C1_TransitionConverges ==
    (last.op = "updatePoseState" /\ cumDelta >= ThirdSecond)
        => (poseState.blend = BlendOne /\ poseState.from = poseState.to)

\* C3: resetPose(target) leaves blend == 1, from == to == target and
\* time == 0, whatever the transition progress was.
C3_ResetSnaps ==
    last.op = "resetPose"
        => poseState = [from |-> last.arg, to |-> last.arg,
                        blend |-> BlendOne, time |-> 0]

C3_Witness ==
    /\ last.op = "resetPose"
    /\ last.mid
    /\ last.timed
    /\ ~last.same

\* C4: on a settled state, setPoseTarget(next) with a new target sets
\* from = old to, to = next, blend = 0 and keeps time; with the settled
\* archetype as target it changes nothing.
C4_SetTargetOnSettled ==
    [][(last'.op = "setPoseTarget" /\ Settled(poseState))
        => IF poseState.to # last'.arg
           THEN poseState' = [from |-> poseState.to, to |-> last'.arg,
                              blend |-> 0, time |-> poseState.time]
           ELSE poseState' = poseState]_vars

C4_Witness ==
    /\ last.op = "setPoseTarget"
    /\ last.settled
    /\ ~last.same
    /\ last.timed
    /\ poseState.blend = 0
    /\ poseState.from # poseState.to

\* C5: blend always lies in [0, 1], and an updatePoseState call with a
\* non-negative delta never decreases it.
C5_BlendMonotoneClamped ==
    /\ [](poseState.blend >= 0 /\ poseState.blend <= BlendOne)
    /\ [][last'.op = "updatePoseState" => poseState'.blend >= poseState.blend]_vars

C5_Witness ==
    /\ last.op = "updatePoseState"
    /\ last.over
    /\ poseState.blend = BlendOne

\* C6: two runs with the same target changes and frame deltas and different
\* speeds agree on from, to and blend after every step.
C6_BlendIndependentOfSpeed ==
    twinSpeeds[1] # twinSpeeds[2]
        => /\ poseState.from = twinState.from
           /\ poseState.to = twinState.to
           /\ poseState.blend = twinState.blend

C6_Witness ==
    /\ twinSpeeds[1] # twinSpeeds[2]
    /\ last.op = "updatePoseState"
    /\ poseState.blend > 0
    /\ poseState.blend < BlendOne
    /\ poseState.time # twinState.time

----------------------------------------------------------------------------
(* Properties of the pose applicator and the bone classifier *)

\* C7: after any earlier applications (and clip writes), applyPoseToRig
\* with signals S leaves every bone with the transform that one call with S
\* gives on the freshly loaded bones, and rig.rest stays the bind pose.
C7_ApplyHistoryFree ==
    /\ rigRef # <<>> => rigRef[1].rest = bindXf
    /\ rigOp.op = "apply" => boneXf = applyPoseToRig(rigRef[1], bindXf, lastSignals)

C7_Witness ==
    /\ rigOp.op = "apply"
    /\ rigOp.prev \in {"apply", "mixer"}
    /\ lastSignals # ZeroSignals
    /\ boneXf # bindXf

\* C8: after applyPoseToRig every bone of rig.bones has exactly the scale
\* that buildRig captured.
C8_ScaleIsBindScale ==
    rigOp.op = "apply"
        => \A k \in 1..Len(rigRef[1].bones) :
              boneXf[rigRef[1].bones[k]].scale = rigRef[1].rest[rigRef[1].bones[k]].scale

C8_Witness ==
    /\ rigOp.op = "apply"
    /\ rigOp.prev = "mixer"
    /\ Len(boneXf) > 1
    /\ lastSignals # ZeroSignals

\* C10: buildRig returns null exactly for a model without bones, and a rig
\* with non-null hips and head for every other model.
C10_RigHasHipsAndHead ==
    modelRef # <<>>
        => /\ (rigRef = <<>>) <=> (Len(modelRef[1].names) = 0)
           /\ rigRef # <<>>
                => /\ rigRef[1].groups.hips \in 1..Len(modelRef[1].names)
                   /\ rigRef[1].groups.head \in 1..Len(modelRef[1].names)

C10_Witness ==
    /\ modelRef # <<>>
    /\ rigRef # <<>>
    /\ NameGroups(modelRef[1]).hips = 0
    /\ NameGroups(modelRef[1]).head = 0

----------------------------------------------------------------------------
(* Properties of the blender and of the render loop *)

\* C9: blendSignals(A, B, 0) is A and blendSignals(A, B, 1) is B in every
\* field of the signal vector, and for 0 <= t <= 1 every field is the
\* linear interpolation of the two corresponding fields (to the unit).
C9_BlendFieldComplete ==
    blendOut # <<>>
        => /\ DOMAIN blendOut[1] = SignalFields
           /\ \A f \in SignalFields :
               LET exact == (BlendOne - blendIn.t) * blendIn.a[f]
                              + blendIn.t * blendIn.b[f]
               IN /\ blendIn.t = 0 => blendOut[1][f] = blendIn.a[f]
                  /\ blendIn.t = BlendOne => blendOut[1][f] = blendIn.b[f]
                  /\ blendOut[1][f] * BlendOne <= exact
                  /\ exact < (blendOut[1][f] + 1) * BlendOne

C9_Witness ==
    /\ blendOut # <<>>
    /\ blendIn.t > 0
    /\ blendIn.t < BlendOne
    /\ \A f \in SignalFields :
        /\ blendIn.a[f] # blendIn.b[f]
        /\ blendOut[1][f] # blendIn.a[f]
        /\ blendOut[1][f] # blendIn.b[f]

\* C2: with autoplay on and a rig loaded, poseState.time equals speed times
\* the sum of the clock deltas of all renderLoop callbacks, those that
\* returned early included.
C2_TimeIsWallClock ==
    (rigRef # <<>> /\ autoplayRef) => poseState.time = wallTime

----------------------------------------------------------------------------
(* Properties of the classifier on named skeletons *)

\* C11: in every rig each ordered group holds no bone twice, is sorted by
\* depth ascending and is capped (spine 5, limbs 4, jaw 3); the bones kept
\* by the cap are the shallowest of the group's candidates.
C11_GroupsSortedAndCapped ==
    rigRef # <<>> =>
        \A cand \in {groupCandidates(modelRef[1])} :
        LET rig == rigRef[1]
            caps == [spine |-> 5, armL |-> 4, armR |-> 4, legL |-> 4,
                     legR |-> 4, jaw |-> 3]
        IN \A g \in DOMAIN caps :
            LET group == rig.groups[g]
                kept == {group[i] : i \in 1..Len(group)}
                all == {cand[g][i] : i \in 1..Len(cand[g])}
            IN /\ Len(group) <= caps[g]
               /\ Cardinality(kept) = Len(group)
               /\ \A i, j \in 1..Len(group) :
                    i < j => rig.depth[group[i]] <= rig.depth[group[j]]
               /\ kept \subseteq all
               /\ Len(group) = Min(caps[g], Cardinality(all))
               /\ \A b \in kept, c \in all \ kept : rig.depth[b] <= rig.depth[c]

\* a spine of more than five bones was cut, and the bone cut off comes
\* before a kept bone in traversal order
C11_Witness ==
    /\ rigRef # <<>>
    /\ Len(groupCandidates(modelRef[1]).spine) > 5
    /\ Len(rigRef[1].groups.spine) = 5
    /\ \E c \in 1..Len(modelRef[1].names) :
        /\ \A i \in 1..5 : rigRef[1].groups.spine[i] # c
        /\ \E i \in 1..5 : rigRef[1].groups.spine[i] > c

\* C12: for the humanoid skeleton named Hips, Spine1, Head, LeftUpArm,
\* RightUpArm, LeftLeg, RightLeg, wherever its bones are, hips is the bone
\* named Hips, head is set, and each limb bone is in the group of its own
\* side and not in the group of the other side.
C12_HumanoidSideAssigned ==
    (rigRef # <<>> /\ modelRef[1].names = HumanoidNames) =>
        LET groups == rigRef[1].groups
            In(b, group) == \E i \in 1..Len(group) : group[i] = b
        IN /\ groups.hips = 1
           /\ groups.head # 0
           /\ In(4, groups.armL) /\ ~In(4, groups.armR)
           /\ In(5, groups.armR) /\ ~In(5, groups.armL)
           /\ In(6, groups.legL) /\ ~In(6, groups.legR)
           /\ In(7, groups.legR) /\ ~In(7, groups.legL)

\* C13: detectSide gives left for L_Hand and right for R_Hand, and decides
\* both in the prefix branch, not by LEFT_REGEX / RIGHT_REGEX.
C13_PrefixPath ==
    modelRef # <<>> =>
        \A b \in 1..Len(modelRef[1].names) :
            LET rawName == modelRef[1].names[b]
                isLimb == isArm(modelRef[1], b) \/ isLeg(modelRef[1], b)
            IN /\ rawName = Name_L_Hand =>
                    detectSidePath(rawName, isLimb) = [side |-> "left", path |-> "prefix"]
               /\ rawName = Name_R_Hand =>
                    detectSidePath(rawName, isLimb) = [side |-> "right", path |-> "prefix"]

\* C13 as amended: detectSide gives left for L_Hand and right for R_Hand,
\* and decides both by the whole-token match of LEFT_REGEX / RIGHT_REGEX
\* (the one-letter token before the underscore), not in the prefix branch.
C13_RegexPath ==
    modelRef # <<>> =>
        \A b \in 1..Len(modelRef[1].names) :
            LET rawName == modelRef[1].names[b]
                isLimb == isArm(modelRef[1], b) \/ isLeg(modelRef[1], b)
            IN /\ rawName = Name_L_Hand =>
                    detectSidePath(rawName, isLimb) = [side |-> "left", path |-> "regex"]
               /\ rawName = Name_R_Hand =>
                    detectSidePath(rawName, isLimb) = [side |-> "right", path |-> "regex"]

\* a skeleton with an L_Hand and an R_Hand bone was classified, and the two
\* bones are the left and the right arm
C13_Witness ==
    /\ rigRef # <<>>
    /\ \E l, r \in 1..Len(modelRef[1].names) :
        /\ modelRef[1].names[l] = Name_L_Hand
        /\ modelRef[1].names[r] = Name_R_Hand
        /\ rigRef[1].groups.armL = <<l>>
        /\ rigRef[1].groups.armR = <<r>>

\* C20: a limb-named bone whose lowercased name matches both a left and a
\* right token, or matches no token and no prefix pattern, is put by the
\* name-based pass in neither the left nor the right group of its limb.
C20_AmbiguousSideExcluded ==
    modelRef # <<>> =>
        LET model == modelRef[1]
            named == NameGroups(model)
            In(b, group) == \E i \in 1..Len(group) : group[i] = b
        IN \A b \in 1..Len(model.names) :
            LET rawName == model.names[b]
                name == toLowerCase(rawName)
                both == LEFT_REGEX(name) /\ RIGHT_REGEX(name)
                none == /\ ~LEFT_REGEX(name)
                        /\ ~RIGHT_REGEX(name)
                        /\ ~PrefixTest(rawName, "l", UpperChars \o DigitChars)
                        /\ ~PrefixTest(rawName, "r", UpperChars \o DigitChars)
            IN (both \/ none) =>
                /\ isArm(model, b) => ~In(b, named.armL) /\ ~In(b, named.armR)
                /\ isLeg(model, b) => ~In(b, named.legL) /\ ~In(b, named.legR)

----------------------------------------------------------------------------
(* Properties of the weapon tracker, the frame order and the model loads *)

\* the model has a bone whose lower-cased name is one of names
HasBoneNamed(model, names) ==
    \E b \in 1..Len(model.names), k \in 1..Len(names) :
        toLowerCase(model.names[b]) = toLowerCase(names[k])

\* the model has a mesh whose lower-cased name contains one of hints
HasMeshHinted(model, hints) ==
    \E m \in 1..Len(model.meshes), k \in 1..Len(hints) :
        includes(toLowerCase(model.meshes[m].name), toLowerCase(hints[k]))

\* nothing to attach: no alignment config for the hero key, no hand bone,
\* or neither a weapon bone nor a hinted mesh
NothingToAttach(model, key) ==
    \/ key = Undefined
    \/ HERO_WEAPON_ALIGNMENT(key) = <<>>
    \/ /\ HERO_WEAPON_ALIGNMENT(key) # <<>>
       /\ \/ ~HasBoneNamed(model, HERO_WEAPON_ALIGNMENT(key)[1].handBones)
          \/ /\ ~HasBoneNamed(model, HERO_WEAPON_ALIGNMENT(key)[1].weaponBones)
             /\ ~HasMeshHinted(model, HERO_WEAPON_ALIGNMENT(key)[1].meshHints)

\* C14: for a model with nothing to attach (no alignment config for the
\* hero key, no hand bone, or a hand bone but neither a weapon bone nor a
\* hinted mesh) alignHeroWeapon creates no attachment and moves no bone and
\* no mesh, and the updateHeroWeaponAttachment of every later frame changes
\* nothing: the bones are as applyPoseToRig left them and the meshes are
\* where they were loaded.
C14_NoWeaponNoAttachment ==
    (modelRef # <<>> /\ NothingToAttach(modelRef[1], heroKey))
        => /\ userData = NoUserData
           /\ bindXf = LoadedXf(modelRef[1], 0)
           /\ meshXf = LoadedMeshXf(modelRef[1])
           /\ boneXf = IF rigOp.op = "apply"
                       THEN applyPoseToRig(rigRef[1], bindXf, lastSignals)
                       ELSE bindXf

C14_Witness ==
    /\ modelRef # <<>>
    /\ heroKey = "monkey_king"
    /\ HasBoneNamed(modelRef[1], HERO_WEAPON_ALIGNMENT(heroKey)[1].handBones)
    /\ NothingToAttach(modelRef[1], heroKey)
    /\ Len(modelRef[1].meshes) > 0
    /\ rigOp.op = "apply"
    /\ poseState.time > 0

\* the signals the frame loop computes from a pose state
SignalsOf(state) ==
    IF state.blend < BlendOne
    THEN blendSignals(getPoseSignals(state.from, state.time),
                      getPoseSignals(state.to, state.time), state.blend)
    ELSE getPoseSignals(state.to, state.time)

\* C15: in every executed frame that poses the rig, the signals are those
\* of the pose state the frame leaves behind (updatePoseState has run first
\* and the state is not advanced after the signals were computed), the
\* bones are posed with these signals, and the weapon is placed from the
\* hand as applyPoseToRig of this frame left it.
C15_FrameOrder ==
    [][(RenderLoop /\ sinceRender' = 0 /\ rigRef # <<>>
            /\ (autoplayRef \/ poseState.blend < BlendOne \/ ~poseApplied))
        => \A posed \in {applyPoseToRig(rigRef[1], boneXf, SignalsOf(poseState'))} :
           \A tracked \in {updateHeroWeaponAttachment(modelRef[1], posed, meshXf,
                                                       userData, heroKey)} :
              /\ lastSignals' = SignalsOf(poseState')
              /\ boneXf' = tracked.xf
              /\ meshXf' = tracked.meshXf
              /\ \E d \in LoopDeltas :
                    poseState' = IF autoplayRef \/ poseState.blend < BlendOne
                                 THEN updatePoseState(poseState, d, speedRef, autoplayRef)
                                 ELSE poseState]_vars

\* a frame has advanced the state in a transition and placed the weapon
\* from the posed hand
C15_Witness ==
    /\ rigOp = [op |-> "apply", prev |-> "apply"]
    /\ userData.weaponAttachment # <<>>
    /\ poseState.blend > 0
    /\ poseState.blend < BlendOne
    /\ poseState.time > 0
    /\ lastSignals # ZeroSignals
    /\ \E b \in 1..Len(boneXf) : boneXf[b].quaternion # bindXf[b].quaternion

\* C16: rigRef is null or the rig built from the model held in modelRef;
\* after the cleanup of the scene effect, and until the effect has run
\* again and its own load has completed, modelRef and rigRef are null and
\* there is no weapon attachment, and no frame runs; the completion of a
\* load whose effect was cleaned up installs no model, no rig and no
\* attachment and moves nothing.
C16_RigOfCurrentModel ==
    /\ [](rigRef # <<>>
            => modelRef # <<>> /\ rigRef = buildRig(modelRef[1], bindXf))
    /\ []((~mounted \/ loading)
            => modelRef = <<>> /\ rigRef = <<>> /\ userData = NoUserData)
    /\ [][~mounted => UNCHANGED <<poseState, poseApplied, boneXf, meshXf>>]_vars
    /\ [][staleLoads' < staleLoads
            => UNCHANGED <<modelRef, rigRef, userData, boneXf, bindXf, meshXf>>]_vars

\* a superseded load has completed while the model of a later run of the
\* effect, with its rig and its weapon attachment, is on display
C16_Witness ==
    /\ mounted
    /\ ~loading
    /\ loadOutcome = "discarded"
    /\ rigOp.op = "apply"
    /\ rigRef # <<>>
    /\ userData.weaponAttachment # <<>>
    /\ poseState.time > 0

\* C18: with a rig loaded, every executed frame of a transition that
\* setPoseTarget started brings it nearer to settled, whether autoplay is
\* on or off: while blend is below 1 the frame raises it, and once blend is
\* 1 the frame makes from equal to to.  A frame is a function of the state
\* it starts in, so a frame that leaves from and to apart is followed only
\* by frames that do the same: the transition settles on a later frame
\* exactly if it settles on the next executed one.
C18_TransitionSettles ==
    [][(RenderLoop /\ sinceRender' = 0 /\ rigRef # <<>>)
        => /\ poseState.blend < BlendOne => poseState'.blend > poseState.blend
           /\ (poseState.blend = BlendOne /\ poseState.from # poseState.to)
                 => poseState'.from = poseState'.to]_vars

\* C19: a callback of the frame loop changes the pose time only by its
\* updatePoseState call: with autoplay off the time stays as it was, also
\* while the blend of a transition advances; with autoplay on an executed
\* frame of a loaded rig adds exactly delta * speed, and a skipped callback
\* or a frame without a rig adds nothing.
C19_TimeAdvancesWithAutoplay ==
    [][RenderLoop
        => IF autoplayRef /\ sinceRender' = 0 /\ rigRef # <<>>
           THEN \E d \in LoopDeltas :
                    poseState'.time = poseState.time + d * speedRef
           ELSE poseState'.time = poseState.time]_vars

\* with autoplay off a frame has advanced the blend of a transition that
\* was under way, at a pose time above zero
C19_Witness ==
    /\ ~autoplayRef
    /\ last.op = "updatePoseState"
    /\ last.mid
    /\ last.timed
    /\ poseState.blend < BlendOne
    /\ rigOp.op = "apply"

----------------------------------------------------------------------------
(* Properties of the URL state *)

\* C17: parseUrlState(serializeUrlState(s)) = s for every UrlState s whose
\* anim is null or a non-empty string, whose pose is one of POSE_OPTIONS,
\* whose preset is studio, neutral, dim or rim, whose autoplay is a boolean
\* and whose speed is a multiple of 0.01 in [0.25, 2].
C17_UrlRoundTrip ==
    (/\ urlOut # <<>>
     /\ urlIn[1].anim # <<"">>
     /\ urlIn[1].pose \in URL_POSE_OPTIONS
     /\ urlIn[1].preset \in LightingPresets
     /\ urlIn[1].speed % 10 = 0
     /\ urlIn[1].speed >= UrlMinSpeed
     /\ urlIn[1].speed <= UrlMaxSpeed)
        => urlOut[1] = urlIn[1]

C17_Witness ==
    /\ urlOut # <<>>
    /\ urlOut[1] = urlIn[1]
    /\ urlIn[1].anim = <<"Take 001">>
    /\ urlIn[1].speed = 1990
    /\ urlIn[1].pose = "seizure"
    /\ urlIn[1].preset = "rim"
    /\ ~urlIn[1].autoplay

----------------------------------------------------------------------------
(* Properties of the weapon tracking                                       *)

\* C21: with an attachment established, after every frame that has called
\* updateHeroWeaponAttachment the weapon bone's local position is the hand
\* bone's current world position converted into the space of the stored
\* parent plus the stored offset (bone case), or that converted position
\* minus the stored mesh centre (mesh case); the call changes a position
\* only: the rotation and the scale of every bone, and every other
\* position, are as applyPoseToRig left them, however the poses applied
\* before have moved the hand.
C21_WeaponSnapsToHand ==
    (rigOp.op = "apply" /\ userData.weaponAttachment # <<>>)
    => \A attachment \in {userData.weaponAttachment[1]} :
       \A posed \in {applyPoseToRig(rigRef[1], bindXf, lastSignals)} :
       \A localHand \in {worldToLocal(modelRef[1], boneXf, attachment.parent,
                              getWorldPosition(modelRef[1], boneXf, attachment.handBone))} :
          IF attachment.weaponBone # 0
          THEN /\ boneXf[attachment.weaponBone].position =
                      VectorAdd(localHand, attachment.offset[1])
               /\ \A b \in 1..Len(boneXf) :
                      /\ boneXf[b].quaternion = posed[b].quaternion
                      /\ boneXf[b].scale = posed[b].scale
                      /\ b # attachment.weaponBone => boneXf[b].position = posed[b].position
               /\ meshXf = LoadedMeshXf(modelRef[1])
          ELSE /\ meshXf[attachment.weaponMesh] = VectorSub(localHand, attachment.meshCenter[1])
               /\ \A m \in 1..Len(meshXf) :
                      m # attachment.weaponMesh => meshXf[m] = LoadedMeshXf(modelRef[1])[m]
               /\ boneXf = posed

\* a frame has placed a weapon bone from a hand that the pose has moved
\* away from its bind transform
C21_Witness ==
    /\ rigOp.op = "apply"
    /\ userData.weaponAttachment # <<>>
    /\ userData.weaponAttachment[1].weaponBone # 0
    /\ matrixWorld(modelRef[1], boneXf, userData.weaponAttachment[1].handBone)
          # matrixWorld(modelRef[1], bindXf, userData.weaponAttachment[1].handBone)
    /\ \E b \in 1..Len(boneXf) :
          /\ b # userData.weaponAttachment[1].weaponBone
          /\ boneXf[b].position # bindXf[b].position

----------------------------------------------------------------------------
(* Properties of the order of the groups in applyPoseToRig                 *)

\* the code's order turned round by k places
Rotated(k) ==
    [i \in 1..Len(GROUP_ORDER) |-> GROUP_ORDER[((i + k - 1) % Len(GROUP_ORDER)) + 1]]

\* the orders compared: the code's order, its rotations and their reversals
GroupOrders ==
    {Rotated(k) : k \in 0..(Len(GROUP_ORDER) - 1)}
    \cup {[i \in 1..Len(GROUP_ORDER) |-> Rotated(k)[Len(GROUP_ORDER) + 1 - i]] :
             k \in 0..(Len(GROUP_ORDER) - 1)}

\* the bones a group of the rig writes
GroupBones(rig, group) ==
    CASE group = "hips" -> {IF rig.groups.hips # 0 THEN rig.groups.hips
                            ELSE rig.groups.root} \ {0}
      [] group = "head" -> {rig.groups.head} \ {0}
      [] OTHER -> {rig.groups[group][i] : i \in 1..Len(rig.groups[group])}

\* no bone is a member of more than one group
GroupsDisjoint(rig) ==
    \A g \in 1..Len(GROUP_ORDER) : \A h \in 1..Len(GROUP_ORDER) :
        g # h => GroupBones(rig, GROUP_ORDER[g]) \cap GroupBones(rig, GROUP_ORDER[h]) = {}

\* C22 as stated: the bone transforms applyPoseToRig has written are those
\* of every order of processing the groups, for every rig buildRig returns,
\* the rigs with a bone in more than one group included.
C22_OrderIndependent ==
    rigOp.op = "apply"
    => \A order \in GroupOrders :
          applyPoseToRigInOrder(rigRef[1], boneXf, lastSignals, order) = boneXf

\* C22 amended: the bone transforms applyPoseToRig has written are those of
\* every order of processing the groups, for every rig buildRig returns in
\* which no bone is a member of more than one group.
C22_OrderIndependentDisjoint ==
    (rigOp.op = "apply" /\ GroupsDisjoint(rigRef[1]))
    => \A order \in GroupOrders :
          applyPoseToRigInOrder(rigRef[1], boneXf, lastSignals, order) = boneXf

\* a rig of disjoint groups, three of them or more with bones, has been posed
C22_Witness ==
    /\ rigOp.op = "apply"
    /\ GroupsDisjoint(rigRef[1])
    /\ Cardinality({g \in 1..Len(GROUP_ORDER) :
                        GroupBones(rigRef[1], GROUP_ORDER[g]) # {}}) >= 3
    /\ rigRef[1].groups.head # 0
    /\ Len(rigRef[1].groups.spine) > 0
    /\ boneXf # bindXf

----------------------------------------------------------------------------
(* Properties of the forward drift                                         *)

\* C23: for every archetype, at the elapsed time of the pose state,
\* getPoseSignals returns forward in [0, profile.forward]; the blend of
\* the two archetypes' vectors with the state's factor in [0, 1] keeps
\* forward >= 0; and after every frame that has posed the rig the z
\* position of the hips (or root) bone is not below its bind z position.
C23_ForwardNeverReverses ==
    /\ \A pose \in PoseNames :
          /\ getPoseSignals(pose, poseState.time).forward >= 0
          /\ getPoseSignals(pose, poseState.time).forward
                <= POSE_PROFILES[pose].forward * WaveOne
    /\ poseState.blend \in 0..BlendOne
    /\ SignalsOf(poseState).forward >= 0
    /\ blendSignals(getPoseSignals(poseState.from, poseState.time),
                    getPoseSignals(poseState.to, poseState.time),
                    poseState.blend).forward >= 0
    /\ (rigOp.op = "apply" /\ rigRef # <<>>)
         => /\ lastSignals.forward >= 0
            /\ \A root \in {IF rigRef[1].groups.hips # 0 THEN rigRef[1].groups.hips
                             ELSE rigRef[1].groups.root} \ {0} :
                   boneXf[root].position[3] >= bindXf[root].position[3]

\* a frame has posed the rig in the negative half of the gait wave of an
\* archetype that drifts forward, in the middle of a transition
C23_Witness ==
    /\ rigOp.op = "apply"
    /\ rigRef # <<>>
    /\ rigRef[1].groups.hips # 0
    /\ POSE_PROFILES[poseState.to].forward > 0
    /\ Sin(Angle(poseState.time, POSE_PROFILES[poseState.to].frequency, 1, 1, 0)) < 0
    /\ lastSignals.stride < 0
    /\ poseState.blend > 0
    /\ poseState.blend < BlendOne

----------------------------------------------------------------------------
(* Properties of a change of the archetype                                 *)

\* C24: at a setPoseTarget request (the pose effect), in every reachable
\* state, a transition in progress (blend < 1) included, the blended
\* signal vector the frame loop computes from the pose state right after
\* the request is the vector it computes right before it.
C24_NoJumpAtRequest ==
    [][ChangePose => SignalsOf(poseState') = SignalsOf(poseState)]_vars

\* C25: every executed frame of a viewer that holds a rig leaves the bones
\* posed with the signals of the pose state as it then is; a frame is a
\* function of the state it starts in, so a change of the pose state (a
\* reset, a setPoseTarget, a model load) that the first executed frame
\* after it does not show is shown by no later frame either.
C25_ChangeShown ==
    [][(RenderLoop /\ sinceRender' = 0 /\ rigRef # <<>>)
        => (rigOp'.op = "apply" /\ lastSignals' = SignalsOf(poseState'))]_vars

----------------------------------------------------------------------------
(* Properties of the URL synchronisation of the hero page                  *)

\* C26: the two effects never revert a change the user made: urlState is
\* the state the user chose last, however long the delivery of the
\* router.replace calls takes, and once every call has been delivered the
\* query string is the serialization of that state.
C26_NoRevert ==
    urlState # <<>>
    => /\ urlState = lastChosen
       /\ pendingReplace = <<>> => searchParams = serializeUrlState(lastChosen[1])

\* C27: parseUrlState returns a speed in [0.25, 2]: the default 1 when the
\* speed parameter is absent or is not a finite number, and otherwise the
\* given number clamped to [0.25, 2].
C27_SpeedParsed ==
    urlOut # <<>>
    => /\ urlOut[1].speed >= UrlMinSpeed
       /\ urlOut[1].speed <= UrlMaxSpeed
       /\ urlOut[1].speed =
             IF urlIn[1].speed = <<>> \/ ToNumber(urlIn[1].speed) = NotANumber
             THEN DEFAULT_URL_STATE.speed
             ELSE Min(Max(ToNumber(urlIn[1].speed), UrlMinSpeed), UrlMaxSpeed)

----------------------------------------------------------------------------
(* Properties of the asset routes                                          *)

\* C28: for every list of path segments, '..' segments included,
\* resolveAssetPath returns a path only if the path is the root directory
\* of the route or a descendant of it; for a path that resolves anywhere
\* else, a sibling directory whose name starts with the root's name
\* included, it returns null.
C28_InsideRootOnly ==
    resolvedPath # <<>>
    => \A root \in {Append(Cwd, assetRequest[1].root)} :
       \A target \in {ResolveComponents(root, assetRequest[1].segments)} :
          resolvedPath[1] # <<>>
          => /\ Len(target) >= Len(root)
             /\ SubSeq(target, 1, Len(root)) = root

----------------------------------------------------------------------------
(* Properties of the overlays of the viewer                                *)

\* C29: once the scene effect has run again (the model URL changed or
\* Retry was pressed) and has started a new load, a success or an error
\* callback of an earlier load changes neither the error message nor the
\* loading flag.
C29_StaleLoadSilent ==
    [][(mounted /\ (OnLoadCancelled \/ OnErrorCancelled))
       => (error' = error /\ isLoading' = isLoading)]_vars

----------------------------------------------------------------------------
(* Properties of the environment of the scene                              *)

\* C30: the environment and the background of the scene are non-null only
\* if the latest applyEnvironmentMode call requested 'sky'; a sky load
\* that completes after a later switch to 'none' or after a newer sky
\* request is disposed of and leaves the scene and skyEnvMapRef as they are.
C30_EnvironmentOfLatestMode ==
    /\ []((scene.environment # <<>> \/ scene.background # <<>>)
          => environmentMode = "sky")
    /\ [][OnSkyLoadedStale
          => /\ skyOutcome' = "disposed"
             /\ scene' = scene
             /\ skyEnvMapRef' = skyEnvMapRef]_vars

\* a superseded sky load has completed after a switch to 'none' and was
\* disposed of
C30_Witness ==
    /\ skyOutcome = "disposed"
    /\ environmentMode = "none"
    /\ scene = NoEnvironment
    /\ skyEnvMapRef # <<>>
====
